---- MODULE Spec2Model ----
(***************************************************************************)
(* A model of the end-to-end frame cryptor                                 *)
(* (api/crypto/frame_crypto_transformer.cc): Transform, the worker's       *)
(* encryptFrame / decryptFrame, makeIv, and the helpers they call.         *)
(*                                                                         *)
(* Bytes are 0..255 and payloads are sequences of bytes.  32-bit values    *)
(* (SSRC, RTP timestamp, send counter) are records [hi, lo] of two 16-bit  *)
(* halves, because TLC's integers are 32-bit signed.                       *)
(*                                                                         *)
(* AES-GCM and PBKDF2 come from the cipher library and the key handler's   *)
(* ratchet from the key provider; they are modelled as an ideal AEAD, an   *)
(* injective key derivation and a collision-free one-way step.             *)
(***************************************************************************)
EXTENDS Integers, Sequences, FiniteSets, TLC

(***************************************************************************)
(* Bytes and 32-bit words                                                  *)
(***************************************************************************)
RECURSIVE SumTo(_, _)
SumTo(s, n) == IF n = 0 THEN 0 ELSE s[n] + SumTo(s, n - 1)

SumSeq(s) == SumTo(s, Len(s))

Half == 256 * 256

U32(h, l) == [hi |-> h, lo |-> l]

\* rtc::ByteBufferWriter::WriteUInt32: network (big-endian) byte order.
WriteUInt32(w) ==
    << w.hi \div 256, w.hi % 256, w.lo \div 256, w.lo % 256 >>

\* w + 1 on a uint32_t.
U32Inc(w) ==
    IF w.lo + 1 < Half THEN U32(w.hi, w.lo + 1)
    ELSE U32((w.hi + 1) % Half, 0)

\* w - n on a uint32_t, for 0 <= n < 65536.
U32SubSmall(w, n) ==
    IF w.lo >= n THEN U32(w.hi, w.lo - n)
    ELSE U32((w.hi + Half - 1) % Half, w.lo + Half - n)

\* w % m on a uint32_t, for m < 65536: (hi * 65536 + lo) % m computed without
\* leaving 31 bits.
U32Mod(w, m) == (((w.hi % m) * (Half % m)) + (w.lo % m)) % m

Take(s, n) == SubSeq(s, 1, n)
Drop(s, n) == SubSeq(s, n + 1, Len(s))

(***************************************************************************)
(* Cipher library (BoringSSL) and key derivation                           *)
(***************************************************************************)
TagLen == 16
IvLen == 12

\* EVP_AEAD_CTX_seal / EVP_AEAD_CTX_open as an ideal AEAD on bytes: a
\* keystream that depends on key and IV, and a 16-byte tag that binds the
\* key, every IV byte, the AAD and the ciphertext.
KeyStream(key, iv) == (key[1] + iv[12] + 1) % 256

AeadTag(key, iv, aad, ct) ==
    << key[1] >> \o [i \in 1..IvLen |-> (iv[i] + key[2] + i) % 256] \o
    << (SumSeq(aad) + 7 * Len(aad)) % 256,
       (SumSeq(ct) + 13 * Len(ct)) % 256,
       (key[3] + iv[12] + Len(aad) + Len(ct)) % 256 >>

AeadSeal(key, iv, aad, pt) ==
    LET ct == [i \in 1..Len(pt) |-> (pt[i] + KeyStream(key, iv)) % 256]
    IN  ct \o AeadTag(key, iv, aad, ct)

AeadOpenOk(key, iv, aad, data) ==
    /\ Len(data) >= TagLen
    /\ Len(iv) = IvLen
    /\ Drop(data, Len(data) - TagLen)
         = AeadTag(key, iv, aad, Take(data, Len(data) - TagLen))

AeadOpen(key, iv, aad, data) ==
    [i \in 1..(Len(data) - TagLen) |->
        (data[i] + 256 - KeyStream(key, iv)) % 256]

\* PKCS5_PBKDF2_HMAC(raw_key, salt, 100000, SHA-256, bits/8): deterministic
\* and injective on the materials of the model.
DerivePBKDF2KeyFromRawKey(raw_key, salt, optional_length_bits) ==
    [i \in 1..(optional_length_bits \div 8) |->
        (raw_key[1] + SumSeq(salt) + 3 * (i - 1)) % 256]

GetAesGcmAlgorithmFromKeySize(key_size_bytes) ==
    IF key_size_bytes = 16 THEN "aes_128_gcm"
    ELSE IF key_size_bytes = 32 THEN "aes_256_gcm"
    ELSE "nullptr"

Success == 0
ErrorUnexpected == 0 - 1
OperationError == 0 - 2
ErrorDataTooSmall == 0 - 3

\* A faulty variant of AesGcmEncryptDecrypt: the result of EVP_AEAD_CTX_open
\* is not looked at, and the buffer is used whether the tag matched or not.
AesGcmEncryptDecryptUnchecked(mode, raw_key, data, tag_length_bytes, iv, additional_data, aead_alg) ==
    IF aead_alg = "nullptr" THEN [rc |-> ErrorUnexpected, buffer |-> <<>>]
    ELSE IF mode = "kDecrypt" THEN
        IF Len(data) < tag_length_bytes
        THEN [rc |-> ErrorDataTooSmall, buffer |-> <<>>]
        ELSE [rc |-> Success,
              buffer |-> AeadOpen(raw_key, iv, additional_data, data)]
    ELSE [rc |-> Success,
          buffer |-> AeadSeal(raw_key, iv, additional_data, data)]

\* AesGcmEncryptDecrypt: [rc, buffer].
AesGcmEncryptDecrypt(mode, raw_key, data, tag_length_bytes, iv, additional_data, aead_alg) ==
    IF aead_alg = "nullptr" THEN [rc |-> ErrorUnexpected, buffer |-> <<>>]
    ELSE IF mode = "kDecrypt" THEN
        IF Len(data) < tag_length_bytes
        THEN [rc |-> ErrorDataTooSmall, buffer |-> <<>>]
        ELSE IF AeadOpenOk(raw_key, iv, additional_data, data)
        THEN [rc |-> Success,
              buffer |-> AeadOpen(raw_key, iv, additional_data, data)]
        ELSE [rc |-> OperationError, buffer |-> <<>>]
    ELSE [rc |-> Success,
          buffer |-> AeadSeal(raw_key, iv, additional_data, data)]

AesEncryptDecrypt(mode, algorithm, raw_key, iv, additional_data, data) ==
    IF algorithm = "kAesGcm" THEN
        LET cipher == GetAesGcmAlgorithmFromKeySize(Len(raw_key))
        IN  IF cipher = "nullptr"
            THEN [rc |-> ErrorUnexpected, buffer |-> <<>>]
            ELSE AesGcmEncryptDecrypt(mode, raw_key, data, 128 \div 8, iv,
                                      additional_data, cipher)
    ELSE [rc |-> ErrorUnexpected, buffer |-> <<>>]

(***************************************************************************)
(* H.264 helpers (common_video/h264/h264_common)                           *)
(***************************************************************************)
\* H264::WriteRbsp: an emulation-prevention byte 0x03 after every 0x00 0x00.
RECURSIVE WriteRbspFrom(_, _)
WriteRbspFrom(src, zeros) ==
    IF src = <<>> THEN <<>>
    ELSE IF Head(src) = 0 /\ zeros = 1
         THEN << 0, 3 >> \o WriteRbspFrom(Tail(src), 0)
         ELSE << Head(src) >>
              \o WriteRbspFrom(Tail(src), IF Head(src) = 0 THEN 1 ELSE 0)

WriteRbsp(src) == WriteRbspFrom(src, 0)

\* H264::ParseRbsp: drop the 0x03 of every 0x00 0x00 0x03.
RECURSIVE ParseRbsp(_)
ParseRbsp(data) ==
    IF data = <<>> THEN <<>>
    ELSE IF Len(data) >= 3 /\ data[1] = 0 /\ data[2] = 0 /\ data[3] = 3
         THEN << 0, 0 >> \o ParseRbsp(Drop(data, 3))
         ELSE << Head(data) >> \o ParseRbsp(Tail(data))

\* H264::FindNaluIndices: the payload_start_offset (0-based) of every NAL
\* unit, i.e. the offset after each 0x00 0x00 0x01 that is followed by a byte.
FindNaluIndices(data) ==
    LET starts == { i \in 1..(Len(data) - 3) :
                      data[i] = 0 /\ data[i + 1] = 0 /\ data[i + 2] = 1 }
    IN  { i + 2 : i \in starts }

\* H264::ParseNaluType: the low five bits.
ParseNaluType(b) == b % 32
kSlice == 1
kIdr == 5

Min(S) == CHOOSE x \in S : \A y \in S : x <= y

\* NeedsRbspUnescaping: the loop runs i = 0 .. frameSize - 4 on a size_t, so
\* a frameSize below 3 wraps around and reads past the buffer.
NeedsRbspUnescapingOob(frameData) == Len(frameData) < 3

NeedsRbspUnescaping(frameData) ==
    \E i \in 1..(Len(frameData) - 3) :
        frameData[i] = 0 /\ frameData[i + 1] = 0 /\ frameData[i + 2] = 3

FrameIsH264(frame, type) ==
    IF type = "kVideoFrame" THEN frame.codec = "kVideoCodecH264" ELSE FALSE

\* get_unencrypted_bytes returns a uint8_t.
get_unencrypted_bytes(frame, type) ==
    IF type = "kAudioFrame" THEN 1
    ELSE IF type = "kVideoFrame" THEN
        IF frame.codec = "kVideoCodecAV1" THEN 0
        ELSE IF frame.codec = "kVideoCodecVP8"
             THEN (IF frame.key_frame THEN 10 ELSE 3)
        ELSE IF frame.codec = "kVideoCodecH264" THEN
            LET slices == { o \in FindNaluIndices(frame.data) :
                              ParseNaluType(frame.data[o + 1]) \in {kIdr, kSlice} }
            IN  IF slices = {} THEN 0 ELSE (Min(slices) + 2) % 256
        ELSE 0
    ELSE 0

(***************************************************************************)
(* IV generator                                                            *)
(***************************************************************************)
getIvSize(algorithm) == IF algorithm = "kAesGcm" THEN 12 ELSE 0

\* makeIv: [iv, send_counts_].  rnd is the value of floor(rand() * 0xFFFF).
makeIv(send_counts, ssrc, timestamp, rnd) ==
    LET found == ssrc \in DOMAIN send_counts
        send_count == IF found THEN send_counts[ssrc] ELSE U32(0, 0)
        counts1 == [s \in DOMAIN send_counts \cup {ssrc} |->
                      IF s = ssrc /\ ~found THEN rnd ELSE send_counts[s]]
        third == U32SubSmall(timestamp, U32Mod(send_count, 65535))
    IN  [iv |-> WriteUInt32(ssrc) \o WriteUInt32(timestamp) \o WriteUInt32(third),
         send_counts_ |-> [counts1 EXCEPT ![ssrc] = U32Inc(send_count)]]

(***************************************************************************)
(* Key provider and participant key handler                                *)
(***************************************************************************)
NullKeySet == [material |-> <<>>, encryption_key |-> <<>>]

\* ParticipantKeyHandler::DeriveKeys
DeriveKeys(material, salt, bits) ==
    [material |-> material,
     encryption_key |-> DerivePBKDF2KeyFromRawKey(material, salt, bits)]

\* ParticipantKeyHandler::RatchetKeyMaterial: a deterministic one-way step
\* that returns material of the same length.
RatchetStep == 17
RatchetKeyMaterial(material) ==
    [i \in DOMAIN material |-> (material[i] + RatchetStep) % 256]

RECURSIVE RatchetTimes(_, _)
RatchetTimes(material, k) ==
    IF k = 0 THEN material ELSE RatchetTimes(RatchetKeyMaterial(material), k - 1)

NullHandler(opts) ==
    [present |-> FALSE,
     ring |-> [i \in 0..(opts.key_ring_size - 1) |-> NullKeySet],
     current_index |-> 0,
     has_valid_key |-> FALSE,
     failure_count |-> 0]

NewHandler(opts) == [NullHandler(opts) EXCEPT !.present = TRUE]

\* ParticipantKeyHandler::GetKeySet
GetKeySet(handler, index) ==
    IF index \in DOMAIN handler.ring THEN handler.ring[index] ELSE NullKeySet

\* ParticipantKeyHandler::SetKeyFromMaterial
SetKeyFromMaterial(handler, opts, material, index) ==
    IF index \in DOMAIN handler.ring
    THEN [handler EXCEPT !.ring[index] = DeriveKeys(material, opts.ratchet_salt, 128),
                         !.current_index = index]
    ELSE handler

\* ParticipantKeyHandler::SetHasValidKey
SetHasValidKey(handler) == [handler EXCEPT !.has_valid_key = TRUE]

\* ParticipantKeyHandler::SetKey
SetKey(handler, opts, material, index) ==
    [SetHasValidKey(SetKeyFromMaterial(handler, opts, material, index))
        EXCEPT !.failure_count = 0]

\* ParticipantKeyHandler::DecryptionFailure: [handler, result].
DecryptionFailure(handler, opts) ==
    [handler |-> [handler EXCEPT !.failure_count = @ + 1],
     result |-> handler.failure_count + 1 >= opts.failure_threshold]

\* key_provider_->options().shared_key ? GetSharedKey(id) : GetKey(id)
LookupKeyHandler(provider, opts) ==
    IF opts.shared_key THEN provider.shared ELSE provider.keys

StoreKeyHandler(provider, opts, handler) ==
    IF opts.shared_key THEN [provider EXCEPT !.shared = handler]
    ELSE [provider EXCEPT !.keys = handler]

(***************************************************************************)
(* FrameCryptorTransformer: the worker's handlers as functions of the      *)
(* transformer's state st and the frame.  A handler returns the set of     *)
(* its possible results (one, unless the code reads out of bounds): the    *)
(* fields it writes, the frames it hands to the sink (out), the states it  *)
(* passes to onFrameCryptionStateChanged (notes), and a record of what it  *)
(* did (path, key_lookup, trailer_read, cipher_ops, ratchets,              *)
(* failure_called, oob).                                                   *)
(***************************************************************************)
Result(st) ==
    [sink_callbacks_ |-> st.sink_callbacks_,
     last_enc_error_ |-> st.last_enc_error_,
     last_dec_error_ |-> st.last_dec_error_,
     send_counts_ |-> st.send_counts_,
     provider |-> st.provider,
     out |-> <<>>, notes |-> <<>>, crashed |-> FALSE,
     path |-> "none", key_lookup |-> FALSE, trailer_read |-> FALSE,
     cipher_ops |-> 0, ratchets |-> 0, failure_called |-> FALSE,
     oob |-> FALSE, material |-> <<>>,
     unencrypted_bytes |-> 0, iv |-> <<>>, rnd |-> U32(0, 0)]

\* A faulty variant of EdgeDec: the state is passed on without comparing it
\* with last_dec_error_.
EdgeDecUnguarded(r, state) ==
    [r EXCEPT !.last_dec_error_ = state, !.notes = Append(@, state)]

\* if (last_enc_error_ != s) { last_enc_error_ = s; onFrameCryptionStateChanged(s); }
EdgeEnc(r, state) ==
    IF r.last_enc_error_ # state
    THEN [r EXCEPT !.last_enc_error_ = state, !.notes = Append(@, state)]
    ELSE r

\* if (last_dec_error_ != s) { last_dec_error_ = s; onFrameCryptionStateChanged(s); }
EdgeDec(r, state) ==
    IF r.last_dec_error_ # state
    THEN [r EXCEPT !.last_dec_error_ = state, !.notes = Append(@, state)]
    ELSE r

\* sink_callbacks_[ssrc]: std::map::operator[] inserts a null entry for a
\* key that is not in the map.
MapIndex(sink_callbacks, ssrc) ==
    [s \in DOMAIN sink_callbacks \cup {ssrc} |->
        IF s \in DOMAIN sink_callbacks THEN sink_callbacks[s] ELSE "nullptr"]

\* The sink snapshot both handlers take under mutex_.
SinkSnapshot(st, frame) ==
    IF st.type_ = "kAudioFrame"
    THEN [sink_callback |-> st.sink_callback_, sink_callbacks_ |-> st.sink_callbacks_]
    ELSE [sink_callback |-> MapIndex(st.sink_callbacks_, frame.ssrc)[frame.ssrc],
          sink_callbacks_ |-> MapIndex(st.sink_callbacks_, frame.ssrc)]

\* A faulty variant of frame_trailer: the two bytes change places.
frame_trailer_swapped(st) == << st.key_index_ % 256, getIvSize(st.algorithm_) >>

\* frame_trailer[0] = getIvSize(); frame_trailer[1] = key_index_;
frame_trailer(st) == << getIvSize(st.algorithm_), st.key_index_ % 256 >>

\* encryptFrame from the key_set on: header, trailer, IV, seal, layout.
EncryptWithKeySet(st, frame, rnd, r1, key_set) ==
    LET date_in == frame.data
        unencrypted_bytes == get_unencrypted_bytes(frame, st.type_)
    IN  IF Len(date_in) < unencrypted_bytes
        THEN \* date_in[i] past the end, then Buffer(size - unencrypted_bytes)
             \* with the size wrapped around: the allocation aborts.
             { [r1 EXCEPT !.crashed = TRUE, !.oob = TRUE, !.path = "oob"] }
        ELSE
        LET frame_header == Take(date_in, unencrypted_bytes)
            mk == makeIv(st.send_counts_, frame.ssrc, frame.timestamp, rnd)
            payload == Drop(date_in, unencrypted_bytes)
            res == AesEncryptDecrypt("kEncrypt", st.algorithm_, key_set.encryption_key, mk.iv, frame_header, payload)
            r2 == [r1 EXCEPT !.send_counts_ = mk.send_counts_, !.cipher_ops = 1,
                             !.material = key_set.material,
                             !.unencrypted_bytes = unencrypted_bytes,
                             !.iv = mk.iv, !.rnd = rnd]
        IN  IF res.rc = Success
            THEN LET data_without_header == res.buffer \o mk.iv \o frame_trailer(st)
                     data_out == frame_header \o
                                 (IF FrameIsH264(frame, st.type_)
                                  THEN WriteRbsp(data_without_header)
                                  ELSE data_without_header)
                 IN  { [EdgeEnc(r2, "kOk") EXCEPT
                           !.out = << [frame EXCEPT !.data = data_out] >>,
                           !.path = "encrypted"] }
            ELSE { EdgeEnc([r2 EXCEPT !.path = "encrypt_failed"], "kEncryptionFailed") }

encryptFrame(st, frame, rnd) ==
    LET snap == SinkSnapshot(st, frame)
        r0 == [Result(st) EXCEPT !.sink_callbacks_ = snap.sink_callbacks_]
    IN  IF snap.sink_callback = "nullptr"
        THEN { EdgeEnc([r0 EXCEPT !.path = "no_sink"], "kInternalError") }
        ELSE IF Len(frame.data) = 0 \/ ~st.enabled_cryption_
        THEN IF st.options.discard_frame_when_cryptor_not_ready
             THEN { [r0 EXCEPT !.path = "discard"] }
             ELSE { [r0 EXCEPT !.path = "passthrough", !.out = << frame >>] }
        ELSE
        LET key_handler == LookupKeyHandler(st.provider, st.options)
            r1 == [r0 EXCEPT !.key_lookup = TRUE]
        IN  IF ~key_handler.present \/ GetKeySet(key_handler, st.key_index_) = NullKeySet
            THEN { EdgeEnc([r1 EXCEPT !.path = "missing_key"], "kMissingKey") }
            ELSE EncryptWithKeySet(st, frame, rnd, r1, GetKeySet(key_handler, st.key_index_))

\* A faulty variant of RatchetLoop: the material that opened the frame is
\* not installed in the key handler.
RECURSIVE RatchetLoopNoInstall(_, _, _, _, _, _, _, _)
RatchetLoopNoInstall(st, key_handler, key_index, currentKeyMaterial, ratchet_count, iv, frame_header, encrypted_payload) ==
    IF ~(ratchet_count < st.options.ratchet_window_size)
    THEN [success |-> FALSE, key_handler |-> key_handler,
          ratchet_count |-> ratchet_count, buffer |-> <<>>]
    ELSE
    LET new_material == RatchetKeyMaterial(currentKeyMaterial)
        ratcheted_key_set == DeriveKeys(new_material, st.options.ratchet_salt, 128)
        res == AesEncryptDecrypt("kDecrypt", st.algorithm_, ratcheted_key_set.encryption_key, iv, frame_header, encrypted_payload)
    IN  IF res.rc = Success
        THEN [success |-> TRUE, key_handler |-> SetHasValidKey(key_handler),
              ratchet_count |-> ratchet_count + 1, buffer |-> res.buffer]
        ELSE RatchetLoopNoInstall(st, key_handler, key_index, new_material, ratchet_count + 1, iv, frame_header, encrypted_payload)

\* The ratchet loop of decryptFrame: [success, key_handler, ratchet_count,
\* buffer, state].
RECURSIVE RatchetLoop(_, _, _, _, _, _, _, _)
RatchetLoop(st, key_handler, key_index, currentKeyMaterial, ratchet_count, iv, frame_header, encrypted_payload) ==
    IF ~(ratchet_count < st.options.ratchet_window_size)
    THEN [success |-> FALSE, key_handler |-> key_handler,
          ratchet_count |-> ratchet_count, buffer |-> <<>>]
    ELSE
    LET new_material == RatchetKeyMaterial(currentKeyMaterial)
        ratcheted_key_set == DeriveKeys(new_material, st.options.ratchet_salt, 128)
        res == AesEncryptDecrypt("kDecrypt", st.algorithm_, ratcheted_key_set.encryption_key, iv, frame_header, encrypted_payload)
    IN  IF res.rc = Success
        THEN [success |-> TRUE,
              key_handler |-> SetHasValidKey(
                  SetKeyFromMaterial(key_handler, st.options, new_material, key_index)),
              ratchet_count |-> ratchet_count + 1, buffer |-> res.buffer]
        ELSE RatchetLoop(st, key_handler, key_index, new_material, ratchet_count + 1, iv, frame_header, encrypted_payload)

\* A faulty variant of RestoreInitialKey: currentKeyMaterial, the last guess,
\* is installed in place of initialKeyMaterial.
RestoreLastGuess(st, loop, initialKeyMaterial, key_index) ==
    IF ~loop.success \/ loop.ratchet_count >= st.options.ratchet_window_size
    THEN SetKeyFromMaterial(loop.key_handler, st.options,
                            RatchetTimes(initialKeyMaterial, loop.ratchet_count), key_index)
    ELSE loop.key_handler

\* if (!decryption_success || ratchet_count >= ratchet_window_size)
\*   key_handler->SetKeyFromMaterial(initialKeyMaterial, key_index);
RestoreInitialKey(st, loop, initialKeyMaterial, key_index) ==
    IF ~loop.success \/ loop.ratchet_count >= st.options.ratchet_window_size
    THEN SetKeyFromMaterial(loop.key_handler, st.options, initialKeyMaterial, key_index)
    ELSE loop.key_handler

\* decryptFrame from the first open on: open, ratchet, failure or delivery.
DecryptOpen(st, frame, r2, key_handler, key_index, iv, frame_header, encrypted_payload) ==
    LET key_set == GetKeySet(key_handler, key_index)
        initialKeyMaterial == key_set.material
        first == AesEncryptDecrypt("kDecrypt", st.algorithm_, key_set.encryption_key, iv, frame_header, encrypted_payload)
        ratchet == st.options.ratchet_window_size > 0
        loop == RatchetLoop(st, key_handler, key_index, key_set.material, 0, iv, frame_header, encrypted_payload)
        decryption_success == first.rc = Success \/ (ratchet /\ loop.success)
        buffer == IF first.rc = Success THEN first.buffer ELSE loop.buffer
        handler1 == IF first.rc = Success \/ ~ratchet THEN key_handler
                    ELSE RestoreInitialKey(st, loop, initialKeyMaterial, key_index)
        r3 == [r2 EXCEPT
                 !.cipher_ops = IF first.rc = Success \/ ~ratchet THEN 1
                                ELSE 1 + loop.ratchet_count,
                 !.ratchets = IF first.rc = Success \/ ~ratchet THEN 0
                              ELSE loop.ratchet_count,
                 !.material = initialKeyMaterial]
        r4 == IF first.rc # Success /\ ratchet /\ loop.success
              THEN EdgeDec(r3, "kKeyRatcheted") ELSE r3
    IN  IF ~decryption_success
        THEN LET df == DecryptionFailure(handler1, st.options)
                 r5 == [r4 EXCEPT !.provider = StoreKeyHandler(@, st.options, df.handler),
                                  !.failure_called = TRUE, !.path = "decrypt_failed"]
             IN  { IF df.result THEN EdgeDec(r5, "kDecryptionFailed") ELSE r5 }
        ELSE LET data_out == frame_header \o buffer
                 r5 == [r4 EXCEPT !.provider = StoreKeyHandler(@, st.options, handler1),
                                  !.path = IF first.rc = Success THEN "decrypted"
                                           ELSE "ratcheted"]
             IN  { [EdgeDec(r5, "kOk") EXCEPT
                       !.out = << [frame EXCEPT !.data = data_out] >>] }

Crash(r) == [r EXCEPT !.crashed = TRUE, !.oob = TRUE, !.path = "oob"]

\* decryptFrame from the IV on: IV, encrypted buffer, unescaping, payload.
DecryptBody(st, frame, r2, key_handler, unencrypted_bytes, ivLength, key_index) ==
    LET date_in == frame.data
        n == Len(date_in)
    IN  IF n < ivLength + 2 \/ n < unencrypted_bytes
        THEN \* the IV is read before the buffer and a Buffer size wraps around
             { Crash(r2) }
        ELSE
        LET iv == SubSeq(date_in, n - 2 - ivLength + 1, n - 2)
            frame_header == Take(date_in, unencrypted_bytes)
            raw == Drop(date_in, unencrypted_bytes)
            h264 == FrameIsH264(frame, st.type_)
            encrypted_buffer ==
                IF h264 /\ ~NeedsRbspUnescapingOob(raw) /\ NeedsRbspUnescaping(raw)
                THEN ParseRbsp(raw) ELSE raw
        IN  IF Len(encrypted_buffer) < ivLength + 2
            THEN { Crash(r2) }
            ELSE
            LET encrypted_payload == Take(encrypted_buffer, Len(encrypted_buffer) - ivLength - 2)
                tag_oob == Len(encrypted_payload) < TagLen
                r3 == [r2 EXCEPT !.oob = @ \/ tag_oob, !.iv = iv]
                done == DecryptOpen(st, frame, r3, key_handler, key_index, iv, frame_header, encrypted_payload)
            IN  \* Buffer tag(encrypted_payload.data() + size - 16, 16) reads
                \* before the payload when it is shorter than the tag, and
                \* from a null pointer when it is empty.
                IF encrypted_payload = <<>> THEN { Crash(r2) }
                ELSE IF tag_oob THEN done \cup { Crash(r2) }
                ELSE done

\* A faulty variant of DecryptKeyed: the missing-key branch lacks its return
\* and the frame reaches the sink as it came.
DecryptKeyedNoReturn(st, frame, r1, unencrypted_bytes, ivLength, key_index) ==
    IF ivLength # getIvSize(st.algorithm_)
    THEN { EdgeDec([r1 EXCEPT !.path = "bad_iv_len"], "kDecryptionFailed") }
    ELSE
    LET key_handler == LookupKeyHandler(st.provider, st.options)
        r2 == [r1 EXCEPT !.key_lookup = TRUE]
    IN  IF \/ 0 > key_index
           \/ key_index >= st.options.key_ring_size
           \/ ~key_handler.present
           \/ GetKeySet(key_handler, key_index) = NullKeySet
        THEN { EdgeDec([r2 EXCEPT !.path = "missing_key", !.out = << frame >>],
                       "kMissingKey") }
        ELSE IF r2.last_dec_error_ = "kDecryptionFailed" /\ ~key_handler.has_valid_key
        THEN { [r2 EXCEPT !.path = "wait_key"] }
        ELSE DecryptBody(st, frame, r2, key_handler, unencrypted_bytes, ivLength, key_index)

\* A faulty variant of DecryptKeyed: the missing-key branch passes on
\* kDecryptionFailed in place of kMissingKey.
DecryptKeyedWrongState(st, frame, r1, unencrypted_bytes, ivLength, key_index) ==
    IF ivLength # getIvSize(st.algorithm_)
    THEN { EdgeDec([r1 EXCEPT !.path = "bad_iv_len"], "kDecryptionFailed") }
    ELSE
    LET key_handler == LookupKeyHandler(st.provider, st.options)
        r2 == [r1 EXCEPT !.key_lookup = TRUE]
    IN  IF \/ 0 > key_index
           \/ key_index >= st.options.key_ring_size
           \/ ~key_handler.present
           \/ GetKeySet(key_handler, key_index) = NullKeySet
        THEN { EdgeDec([r2 EXCEPT !.path = "missing_key"], "kDecryptionFailed") }
        ELSE IF r2.last_dec_error_ = "kDecryptionFailed" /\ ~key_handler.has_valid_key
        THEN { [r2 EXCEPT !.path = "wait_key"] }
        ELSE DecryptBody(st, frame, r2, key_handler, unencrypted_bytes, ivLength, key_index)

\* A faulty variant of DecryptKeyed: a frame that comes after kDecryptionFailed
\* is opened although the handler has no valid key.
DecryptKeyedNoWait(st, frame, r1, unencrypted_bytes, ivLength, key_index) ==
    IF ivLength # getIvSize(st.algorithm_)
    THEN { EdgeDec([r1 EXCEPT !.path = "bad_iv_len"], "kDecryptionFailed") }
    ELSE
    LET key_handler == LookupKeyHandler(st.provider, st.options)
        r2 == [r1 EXCEPT !.key_lookup = TRUE]
    IN  IF \/ 0 > key_index
           \/ key_index >= st.options.key_ring_size
           \/ ~key_handler.present
           \/ GetKeySet(key_handler, key_index) = NullKeySet
        THEN { EdgeDec([r2 EXCEPT !.path = "missing_key"], "kMissingKey") }
        ELSE DecryptBody(st, frame, r2, key_handler, unencrypted_bytes, ivLength, key_index)

\* decryptFrame from the ivLength check on.
DecryptKeyed(st, frame, r1, unencrypted_bytes, ivLength, key_index) ==
    IF ivLength # getIvSize(st.algorithm_)
    THEN { EdgeDec([r1 EXCEPT !.path = "bad_iv_len"], "kDecryptionFailed") }
    ELSE
    LET key_handler == LookupKeyHandler(st.provider, st.options)
        r2 == [r1 EXCEPT !.key_lookup = TRUE]
    IN  IF \/ 0 > key_index
           \/ key_index >= st.options.key_ring_size
           \/ ~key_handler.present
           \/ GetKeySet(key_handler, key_index) = NullKeySet
        THEN { EdgeDec([r2 EXCEPT !.path = "missing_key"], "kMissingKey") }
        ELSE IF r2.last_dec_error_ = "kDecryptionFailed" /\ ~key_handler.has_valid_key
        THEN { [r2 EXCEPT !.path = "wait_key"] }
        ELSE DecryptBody(st, frame, r2, key_handler, unencrypted_bytes, ivLength, key_index)

\* A byte read from outside the payload has any value; these two stand for
\* "the IV length" and "anything else".
GarbageBytes == {0, 12}

\* decryptFrame from get_unencrypted_bytes on: header and trailer.
DecryptTrailer(st, frame, r0) ==
    LET date_in == frame.data
        n == Len(date_in)
        unencrypted_bytes == get_unencrypted_bytes(frame, st.type_)
        oob == n < unencrypted_bytes \/ n < 2
        r1 == [r0 EXCEPT !.trailer_read = TRUE, !.oob = oob,
                         !.unencrypted_bytes = unencrypted_bytes]
        ivLengths == IF n >= 2 THEN { date_in[n - 1] } ELSE GarbageBytes
        go == UNION { DecryptKeyed(st, frame, r1, unencrypted_bytes, l, date_in[n]) :
                        l \in ivLengths }
    IN  IF oob THEN go \cup { Crash(r1) } ELSE go

\* A faulty variant of MagicBytesDetected: the first bytes of the payload
\* are compared, not the last.
MagicBytesAtFront(date_in, uncrypted_magic_bytes) ==
    /\ Len(uncrypted_magic_bytes) > 0
    /\ Len(date_in) >= Len(uncrypted_magic_bytes)
    /\ Take(date_in, Len(uncrypted_magic_bytes)) = uncrypted_magic_bytes

\* The payload ends with the magic bytes.
MagicBytesDetected(date_in, uncrypted_magic_bytes) ==
    /\ Len(uncrypted_magic_bytes) > 0
    /\ Len(date_in) >= Len(uncrypted_magic_bytes)
    /\ Drop(date_in, Len(date_in) - Len(uncrypted_magic_bytes))
          = uncrypted_magic_bytes

\* A faulty variant of decryptFrame: a frame that comes while the cryptor is
\* not ready is dropped whatever discard_frame_when_cryptor_not_ready says.
decryptFrameDropsUnready(st, frame) ==
    LET snap == SinkSnapshot(st, frame)
        r0 == [Result(st) EXCEPT !.sink_callbacks_ = snap.sink_callbacks_]
        date_in == frame.data
        uncrypted_magic_bytes == st.options.uncrypted_magic_bytes
    IN  IF snap.sink_callback = "nullptr"
        THEN { EdgeDec([r0 EXCEPT !.path = "no_sink"], "kInternalError") }
        ELSE IF Len(date_in) = 0 \/ ~st.enabled_cryption_
        THEN { [r0 EXCEPT !.path = "discard"] }
        ELSE IF MagicBytesDetected(date_in, uncrypted_magic_bytes)
        THEN { [r0 EXCEPT
                  !.path = "magic",
                  !.out = << [frame EXCEPT !.data =
                      Take(date_in, Len(date_in) - Len(uncrypted_magic_bytes))] >>] }
        ELSE DecryptTrailer(st, frame, r0)

decryptFrame(st, frame) ==
    LET snap == SinkSnapshot(st, frame)
        r0 == [Result(st) EXCEPT !.sink_callbacks_ = snap.sink_callbacks_]
        date_in == frame.data
        uncrypted_magic_bytes == st.options.uncrypted_magic_bytes
    IN  IF snap.sink_callback = "nullptr"
        THEN { EdgeDec([r0 EXCEPT !.path = "no_sink"], "kInternalError") }
        ELSE IF Len(date_in) = 0 \/ ~st.enabled_cryption_
        THEN IF st.options.discard_frame_when_cryptor_not_ready
             THEN { [r0 EXCEPT !.path = "discard"] }
             ELSE { [r0 EXCEPT !.path = "passthrough", !.out = << frame >>] }
        ELSE IF MagicBytesDetected(date_in, uncrypted_magic_bytes)
        THEN { [r0 EXCEPT
                  !.path = "magic",
                  !.out = << [frame EXCEPT !.data =
                      Take(date_in, Len(date_in) - Len(uncrypted_magic_bytes))] >>] }
        ELSE DecryptTrailer(st, frame, r0)

(***************************************************************************)
(* The transformer, its worker thread, its sinks and its observer          *)
(***************************************************************************)
VARIABLES
    type_,              \* kAudioFrame or kVideoFrame, set by the constructor
    algorithm_,         \* kAesGcm
    enabled_cryption_,
    key_index_,
    sink_callback_,     \* the audio sink: "sink" or "nullptr"
    sink_callbacks_,    \* the video sinks: ssrc -> "sink" or "nullptr"
    observer_,          \* whether an observer is set
    last_enc_error_,
    last_dec_error_,
    send_counts_,       \* ssrc -> uint32
    provider,           \* key_provider_: the handler of participant_id_
    options,            \* key_provider_->options()
    queue,              \* thread_: the tasks posted and not yet run
    stopped,            \* ~FrameCryptorTransformer has run
    crashed,            \* the process has aborted
    delivered,          \* the last frame handed to OnTransformedFrame
    posted,             \* per direction, the last state posted to signaling_thread_
    missed,             \* a state change found no observer to post to
    kept,               \* a frame the sink's owner keeps to compare later ones with
    calls,              \* the number of Transform calls made so far
    owner_ops,          \* the number of calls of the owner's setters so far
    pc,                 \* where the transport thread and the worker thread are
    ev                  \* the last step: what ran, on what, from which state

vars == << type_, algorithm_, enabled_cryption_, key_index_, sink_callback_,
           sink_callbacks_, observer_, last_enc_error_, last_dec_error_,
           send_counts_, provider, options, queue, stopped, crashed,
           delivered, posted, missed, kept, calls, owner_ops, pc, ev >>

Self ==
    [type_ |-> type_, algorithm_ |-> algorithm_,
     enabled_cryption_ |-> enabled_cryption_, key_index_ |-> key_index_,
     sink_callback_ |-> sink_callback_, sink_callbacks_ |-> sink_callbacks_,
     observer_ |-> observer_, last_enc_error_ |-> last_enc_error_,
     last_dec_error_ |-> last_dec_error_, send_counts_ |-> send_counts_,
     provider |-> provider, options |-> options]

NoFrame ==
    [id |-> 0, dir |-> "kUnknown", ssrc |-> U32(0, 0), timestamp |-> U32(0, 0),
     data |-> <<>>, codec |-> "none", key_frame |-> FALSE,
     sealed |-> FALSE, tampered |-> FALSE, plain |-> <<>>, material |-> <<>>,
     sender_index |-> 0, iv |-> <<>>]

\* Both threads at rest: the transport thread outside Transform, the worker
\* waiting for a task.
Idle ==
    [transport |-> [at |-> "idle", holds |-> "none", frame |-> NoFrame],
     worker |-> [at |-> "idle", holds |-> "none",
                 task |-> [op |-> "none", frame |-> NoFrame]]]

\* onFrameCryptionStateChanged, for the states a handler passed to it in
\* turn: each is posted to the signaling thread if observer_ is set.
onFrameCryptionStateChanged(observer, notes) ==
    IF observer THEN notes ELSE <<>>

Last(s) == s[Len(s)]

\* The record of a step: what ran (op) on which frame, the state it started
\* from (pre), the frames it handed to the sink (out), the states it passed
\* to onFrameCryptionStateChanged (notes) and those posted (sent), and what
\* the handler did.
Before(st, last_delivered_id, last_posted) ==
    [provider |-> st.provider, sink_callbacks_ |-> st.sink_callbacks_,
     sink_callback_ |-> st.sink_callback_,
     last_enc_error_ |-> st.last_enc_error_,
     last_dec_error_ |-> st.last_dec_error_,
     send_counts_ |-> st.send_counts_,
     enabled_cryption_ |-> st.enabled_cryption_,
     key_index_ |-> st.key_index_, observer_ |-> st.observer_,
     delivered_id |-> last_delivered_id, posted |-> last_posted]

EventOf(op, frame, pre, r, sent) ==
    [op |-> op, frame |-> frame, pre |-> pre,
     out |-> r.out, notes |-> r.notes, sent |-> sent,
     path |-> r.path, key_lookup |-> r.key_lookup,
     trailer_read |-> r.trailer_read, cipher_ops |-> r.cipher_ops,
     ratchets |-> r.ratchets, failure_called |-> r.failure_called,
     oob |-> r.oob, unencrypted_bytes |-> r.unencrypted_bytes,
     iv |-> r.iv, rnd |-> r.rnd,
     waiting |-> FALSE, was_waiting |-> FALSE,
     rekeyed |-> FALSE, was_rekeyed |-> FALSE]

\* For the record: after this step, kDecryptionFailed has been posted at some
\* point, the owner has set no key since, and has_valid_key has been false
\* ever since.
WaitingAfter(op, r, sent) ==
    IF op = "SetKey" \/ LookupKeyHandler(r.provider, options).has_valid_key
    THEN FALSE
    ELSE IF op = "decryptFrame" /\ \E i \in DOMAIN sent : sent[i] = "kDecryptionFailed"
    THEN TRUE
    ELSE ev.waiting

\* For the record: after this step, the owner has set a key while the
\* transformer was waiting for one in kDecryptionFailed, has not cleared
\* has_valid_key since, and no frame has been handed to the sink since.
RekeyedAfter(op, r) ==
    IF op = "SetKey" THEN ev.waiting /\ last_dec_error_ = "kDecryptionFailed"
    ELSE IF op = "InvalidateKey" \/ (op = "decryptFrame" /\ r.out # <<>>)
    THEN FALSE
    ELSE ev.rekeyed

Event(op, frame, r, sent) ==
    [EventOf(op, frame, Before(Self, delivered.id, posted), r, sent) EXCEPT
        !.waiting = WaitingAfter(op, r, sent), !.was_waiting = ev.waiting,
        !.rekeyed = RekeyedAfter(op, r), !.was_rekeyed = ev.rekeyed]

\* A faulty variant of PostTask: the task goes to the front of the queue.
PostTaskFront(q, task) == << task >> \o q

\* thread_->PostTask: the worker's queue is first in, first out.
PostTask(q, task) == Append(q, task)

\* Transform, under sink_mutex_, when sink_callbacks_.size() is read from the
\* map sink_callbacks.
TransformSees(frame, sink_callbacks) ==
    /\ ~crashed /\ ~stopped
    /\ calls' = calls + 1
    /\ LET f == [frame EXCEPT !.id = calls + 1]
           dropped == sink_callback_ = "nullptr" /\ DOMAIN sink_callbacks = {}
       IN  /\ queue' = IF dropped THEN queue
                       ELSE IF f.dir = "kSender"
                       THEN PostTask(queue, [op |-> "encryptFrame", frame |-> f])
                       ELSE IF f.dir = "kReceiver"
                       THEN PostTask(queue, [op |-> "decryptFrame", frame |-> f])
                       ELSE queue
           /\ ev' = Event(IF dropped THEN "Transform_drop" ELSE "Transform",
                          f, Result(Self), <<>>)
    /\ UNCHANGED << type_, algorithm_, enabled_cryption_, key_index_,
                    sink_callback_, sink_callbacks_, observer_, last_enc_error_,
                    last_dec_error_, send_counts_, provider, options, stopped,
                    crashed, delivered, posted, missed, owner_ops,
                    kept >>

\* Transform as one step of the transport thread.
Transform(frame) == TransformSees(frame, sink_callbacks_) /\ UNCHANGED pc

\* What a handler's result r does to the transformer and its surroundings.
\* A frame that encryptFrame sealed carries, for the record, what it was
\* sealed from.
Commit(task, r) ==
    /\ sink_callbacks_' = r.sink_callbacks_
    /\ last_enc_error_' = r.last_enc_error_
    /\ last_dec_error_' = r.last_dec_error_
    /\ send_counts_' = r.send_counts_
    /\ provider' = r.provider
    /\ crashed' = r.crashed
    /\ delivered' = IF r.out = <<>> THEN delivered
                     ELSE IF r.path = "encrypted"
                     THEN [Last(r.out) EXCEPT !.sealed = TRUE,
                                              !.plain = task.frame.data,
                                              !.material = r.material,
                                              !.sender_index = key_index_,
                                              !.iv = r.iv]
                     ELSE Last(r.out)
    /\ LET sent == onFrameCryptionStateChanged(observer_, r.notes)
           dir == IF task.op = "encryptFrame" THEN "enc" ELSE "dec"
       IN  /\ posted' = IF sent = <<>> THEN posted
                         ELSE [posted EXCEPT ![dir] = Last(sent)]
           /\ missed' = (missed \/ Len(sent) < Len(r.notes))
           /\ ev' = Event(task.op, task.frame, r, sent)
    /\ UNCHANGED << type_, algorithm_, enabled_cryption_, key_index_,
                    sink_callback_, observer_, options, stopped, calls,
                    owner_ops,
                    kept >>

\* A handler run as one step of the worker thread, on the task at the head
\* of the queue.
Apply(task, r) == queue' = Tail(queue) /\ Commit(task, r) /\ UNCHANGED pc

\* floor(rand() * 0xFFFF), as stored in a uint32_t.
RandValues == { U32(0, 0), U32(0, 40000) }

\* The worker thread runs the task at the head of its queue.
RunEncrypt ==
    /\ ~crashed /\ ~stopped
    /\ queue # <<>> /\ Head(queue).op = "encryptFrame"
    /\ \E rnd \in RandValues :
         \E r \in encryptFrame(Self, Head(queue).frame, rnd) :
            Apply(Head(queue), r)

RunDecrypt ==
    /\ ~crashed /\ ~stopped
    /\ queue # <<>> /\ Head(queue).op = "decryptFrame"
    /\ \E r \in decryptFrame(Self, Head(queue).frame) :
          Apply(Head(queue), r)

(***************************************************************************)
(* The same handlers step by step, for what another thread can do while a  *)
(* task is in flight: the worker takes the task, locks mutex_ for its      *)
(* snapshot of the sinks, and runs the rest of the handler.                *)
(***************************************************************************)
WorkerTake ==
    /\ ~crashed /\ ~stopped
    /\ pc.worker.at = "idle" /\ queue # <<>>
    /\ queue' = Tail(queue)
    /\ pc' = [pc EXCEPT !.worker = [at |-> "taken", holds |-> "none",
                                    task |-> Head(queue)]]
    /\ UNCHANGED << type_, algorithm_, enabled_cryption_, key_index_,
                    sink_callback_, sink_callbacks_, observer_, last_enc_error_,
                    last_dec_error_, send_counts_, provider, options, stopped,
                    crashed, delivered, posted, missed, kept, calls, owner_ops,
                    ev >>

\* webrtc::MutexLock lock(&mutex_) at the head of encryptFrame and decryptFrame
WorkerLock ==
    /\ ~crashed
    /\ pc.worker.at = "taken" /\ pc.transport.holds # "mutex_"
    /\ pc' = [pc EXCEPT !.worker.at = "snapshot", !.worker.holds = "mutex_"]
    /\ UNCHANGED << type_, algorithm_, enabled_cryption_, key_index_,
                    sink_callback_, sink_callbacks_, observer_, last_enc_error_,
                    last_dec_error_, send_counts_, provider, options, queue,
                    stopped, crashed, delivered, posted, missed, kept, calls,
                    owner_ops, ev >>

\* The handler from its snapshot to its end.  Nothing in it asks whether the
\* transformer is being destroyed.
WorkerFinish ==
    /\ ~crashed
    /\ pc.worker.at = "snapshot"
    /\ LET task == pc.worker.task
       IN  \E rnd \in RandValues :
             \E r \in (IF task.op = "encryptFrame"
                       THEN encryptFrame(Self, task.frame, rnd)
                       ELSE decryptFrame(Self, task.frame)) :
                Commit(task, r)
    /\ pc' = [pc EXCEPT !.worker = Idle.worker]
    /\ UNCHANGED queue

\* ~FrameCryptorTransformer calls thread_->Stop(): the worker takes no
\* further task, and a task in flight runs to its end or is given up.
DestroyBegin ==
    /\ ~crashed /\ ~stopped
    /\ pc.transport.at = "idle"
    /\ stopped' = TRUE
    /\ ev' = Event("~FrameCryptorTransformer", NoFrame, Result(Self), <<>>)
    /\ UNCHANGED << type_, algorithm_, enabled_cryption_, key_index_,
                    sink_callback_, sink_callbacks_, observer_, last_enc_error_,
                    last_dec_error_, send_counts_, provider, options, queue,
                    crashed, delivered, posted, missed, kept, calls, owner_ops,
                    pc >>

WorkerDiscard ==
    /\ ~crashed /\ stopped
    /\ pc.worker.at # "idle"
    /\ pc' = [pc EXCEPT !.worker = Idle.worker]
    /\ UNCHANGED << type_, algorithm_, enabled_cryption_, key_index_,
                    sink_callback_, sink_callbacks_, observer_, last_enc_error_,
                    last_dec_error_, send_counts_, provider, options, queue,
                    stopped, crashed, delivered, posted, missed, kept, calls,
                    owner_ops, ev >>

\* Stop() has joined the worker: the tasks still in the queue are released
\* with their frames.
DestroyEnd ==
    /\ ~crashed /\ stopped
    /\ pc.worker.at = "idle" /\ queue # <<>>
    /\ queue' = <<>>
    /\ UNCHANGED << type_, algorithm_, enabled_cryption_, key_index_,
                    sink_callback_, sink_callbacks_, observer_, last_enc_error_,
                    last_dec_error_, send_counts_, provider, options, stopped,
                    crashed, delivered, posted, missed, kept, calls, owner_ops,
                    pc, ev >>

\* webrtc::MutexLock lock(&sink_mutex_) at the head of Transform
TransformEnter(frame) ==
    /\ ~crashed /\ ~stopped
    /\ pc.transport.at = "idle" /\ pc.worker.holds # "sink_mutex_"
    /\ pc' = [pc EXCEPT !.transport = [at |-> "locked", holds |-> "sink_mutex_",
                                       frame |-> frame]]
    /\ UNCHANGED << type_, algorithm_, enabled_cryption_, key_index_,
                    sink_callback_, sink_callbacks_, observer_, last_enc_error_,
                    last_dec_error_, send_counts_, provider, options, queue,
                    stopped, crashed, delivered, posted, missed, kept, calls,
                    owner_ops, ev >>

\* The worker is in its snapshot and sink_callbacks_[ssrc] inserts an entry.
WorkerModifiesMap ==
    /\ pc.worker.at = "snapshot" /\ type_ = "kVideoFrame"
    /\ pc.worker.task.frame.ssrc \notin DOMAIN sink_callbacks_

\* The maps whose size Transform can read: the map as it is and, while the
\* worker inserts into it without the lock Transform holds, the map with
\* the entry inserted.
MapsSeen ==
    IF WorkerModifiesMap
    THEN { sink_callbacks_, MapIndex(sink_callbacks_, pc.worker.task.frame.ssrc) }
    ELSE { sink_callbacks_ }

\* Transform from its test of the sinks to its end.
TransformLeave ==
    /\ pc.transport.at = "locked"
    /\ \E seen \in MapsSeen : TransformSees(pc.transport.frame, seen)
    /\ pc' = [pc EXCEPT !.transport = Idle.transport]

(***************************************************************************)
(* The owner's calls: sinks, observer, setters, keys                       *)
(***************************************************************************)
MaxOwnerOps == 1

OwnerMay == ~crashed /\ ~stopped /\ owner_ops < MaxOwnerOps

OwnerDid(op) ==
    /\ owner_ops' = owner_ops + 1
    /\ ev' = Event(op, NoFrame, Result(Self), <<>>)

\* SetEnabled
SetEnabled(b) ==
    /\ OwnerMay /\ enabled_cryption_ # b
    /\ enabled_cryption_' = b
    /\ OwnerDid("SetEnabled")
    /\ UNCHANGED << type_, algorithm_, key_index_, sink_callback_,
                    sink_callbacks_, observer_, last_enc_error_,
                    last_dec_error_, send_counts_, provider, options, queue,
                    stopped, crashed, delivered, posted, missed, calls,
                    kept, pc >>

\* SetKeyIndex
SetKeyIndex(i) ==
    /\ OwnerMay /\ key_index_ # i
    /\ key_index_' = i
    /\ OwnerDid("SetKeyIndex")
    /\ UNCHANGED << type_, algorithm_, enabled_cryption_, sink_callback_,
                    sink_callbacks_, observer_, last_enc_error_,
                    last_dec_error_, send_counts_, provider, options, queue,
                    stopped, crashed, delivered, posted, missed, calls,
                    kept, pc >>

\* SetFrameCryptorTransformerObserver
SetObserver(b) ==
    /\ OwnerMay /\ observer_ # b
    /\ observer_' = b
    /\ OwnerDid("SetObserver")
    /\ UNCHANGED << type_, algorithm_, enabled_cryption_, key_index_,
                    sink_callback_, sink_callbacks_, last_enc_error_,
                    last_dec_error_, send_counts_, provider, options, queue,
                    stopped, crashed, delivered, posted, missed, calls,
                    kept, pc >>

\* RegisterTransformedFrameCallback (audio) and
\* RegisterTransformedFrameSinkCallback(ssrc) (video)
RegisterSink(ssrc) ==
    /\ OwnerMay
    /\ IF type_ = "kAudioFrame"
       THEN /\ sink_callback_ = "nullptr"
            /\ sink_callback_' = "sink"
            /\ UNCHANGED sink_callbacks_
       ELSE /\ MapIndex(sink_callbacks_, ssrc)[ssrc] = "nullptr"
            /\ sink_callbacks_' = [MapIndex(sink_callbacks_, ssrc) EXCEPT ![ssrc] = "sink"]
            /\ UNCHANGED sink_callback_
    /\ OwnerDid("RegisterSink")
    /\ UNCHANGED << type_, algorithm_, enabled_cryption_, key_index_,
                    observer_, last_enc_error_, last_dec_error_, send_counts_,
                    provider, options, queue, stopped, crashed, delivered,
                    posted, missed, calls,
                    kept, pc >>

\* UnregisterTransformedFrameCallback (audio) and
\* UnregisterTransformedFrameSinkCallback(ssrc) (video), which erases the entry
UnregisterSink(ssrc) ==
    /\ OwnerMay
    /\ IF type_ = "kAudioFrame"
       THEN /\ sink_callback_ = "sink"
            /\ sink_callback_' = "nullptr"
            /\ UNCHANGED sink_callbacks_
       ELSE /\ ssrc \in DOMAIN sink_callbacks_
            /\ sink_callbacks_' = [s \in DOMAIN sink_callbacks_ \ {ssrc} |-> sink_callbacks_[s]]
            /\ UNCHANGED sink_callback_
    /\ OwnerDid("UnregisterSink")
    /\ UNCHANGED << type_, algorithm_, enabled_cryption_, key_index_,
                    observer_, last_enc_error_, last_dec_error_, send_counts_,
                    provider, options, queue, stopped, crashed, delivered,
                    posted, missed, calls,
                    kept, pc >>

\* KeyProvider::SetKey: the participant's handler, made on first use, and
\* ParticipantKeyHandler::SetKey on it.
ProviderSetKey(prov, opts, material, index) ==
    LET h == LookupKeyHandler(prov, opts)
    IN  StoreKeyHandler(prov, opts,
            SetKey(IF h.present THEN h ELSE NewHandler(opts), opts, material, index))

OwnerSetKey(material, index) ==
    /\ OwnerMay
    /\ provider' = ProviderSetKey(provider, options, material, index)
    /\ provider' # provider
    /\ OwnerDid("SetKey")
    /\ UNCHANGED << type_, algorithm_, enabled_cryption_, key_index_,
                    sink_callback_, sink_callbacks_, observer_, last_enc_error_,
                    last_dec_error_, send_counts_, options, queue, stopped,
                    crashed, delivered, posted, missed, calls,
                    kept, pc >>

\* The owner clears has_valid_key.
OwnerInvalidateKey ==
    /\ OwnerMay
    /\ LookupKeyHandler(provider, options).present
    /\ LookupKeyHandler(provider, options).has_valid_key
    /\ provider' = StoreKeyHandler(provider, options,
          [LookupKeyHandler(provider, options) EXCEPT !.has_valid_key = FALSE])
    /\ OwnerDid("InvalidateKey")
    /\ UNCHANGED << type_, algorithm_, enabled_cryption_, key_index_,
                    sink_callback_, sink_callbacks_, observer_, last_enc_error_,
                    last_dec_error_, send_counts_, options, queue, stopped,
                    crashed, delivered, posted, missed, calls,
                    kept, pc >>

(***************************************************************************)
(* Construction, frames and peers                                          *)
(***************************************************************************)
\* The transformer as its constructor leaves it.
Constructed(type, opts, prov) ==
    [type_ |-> type, algorithm_ |-> "kAesGcm",
     enabled_cryption_ |-> FALSE, key_index_ |-> 0,
     sink_callback_ |-> "nullptr", sink_callbacks_ |-> [s \in {} |-> "nullptr"],
     observer_ |-> FALSE, last_enc_error_ |-> "kOk", last_dec_error_ |-> "kOk",
     send_counts_ |-> [s \in {} |-> U32(0, 0)],
     provider |-> prov, options |-> opts]

NoProvider(opts) == [keys |-> NullHandler(opts), shared |-> NullHandler(opts)]

\* The transformer st with a sink registered for ssrc.
WithSink(st, ssrc) ==
    IF st.type_ = "kAudioFrame" THEN [st EXCEPT !.sink_callback_ = "sink"]
    ELSE [st EXCEPT !.sink_callbacks_ =
             [MapIndex(st.sink_callbacks_, ssrc) EXCEPT ![ssrc] = "sink"]]

\* The variables when the transformer is st and nothing has run yet.
StartsAs(st) ==
    /\ type_ = st.type_ /\ algorithm_ = st.algorithm_
    /\ enabled_cryption_ = st.enabled_cryption_ /\ key_index_ = st.key_index_
    /\ sink_callback_ = st.sink_callback_ /\ sink_callbacks_ = st.sink_callbacks_
    /\ observer_ = st.observer_
    /\ last_enc_error_ = st.last_enc_error_ /\ last_dec_error_ = st.last_dec_error_
    /\ send_counts_ = st.send_counts_
    /\ provider = st.provider /\ options = st.options
    /\ queue = <<>> /\ stopped = FALSE /\ crashed = FALSE
    /\ delivered = NoFrame
    /\ posted = [enc |-> "none", dec |-> "none"]
    /\ missed = FALSE /\ kept = NoFrame
    /\ pc = Idle
    /\ calls = 0 /\ owner_ops = 0
    /\ ev = EventOf("none", NoFrame, Before(st, 0, [enc |-> "none", dec |-> "none"]),
                    Result(st), <<>>)

Frame(dir, ssrc, timestamp, codec, key_frame, data) ==
    [NoFrame EXCEPT !.dir = dir, !.ssrc = ssrc, !.timestamp = timestamp,
                    !.codec = codec, !.key_frame = key_frame, !.data = data]

\* A peer's transformer: enabled, with a sink, sending with material at
\* key_index, having sent count frames on ssrc before.
SenderState(type, opts, ssrc, material, key_index, count) ==
    [WithSink(Constructed(type, opts,
                 ProviderSetKey(NoProvider(opts), opts, material, key_index)), ssrc)
        EXCEPT !.enabled_cryption_ = TRUE, !.key_index_ = key_index,
               !.send_counts_ = IF count = 0 THEN [s \in {} |-> U32(0, 0)]
                                ELSE [s \in {ssrc} |-> U32(0, count)]]

\* What the peer's encryptFrame hands to its sink for plain, as received; the
\* peer's key ring has a slot key_index.
RemoteFrame(type, opts, plain, material, key_index, count) ==
    LET st == SenderState(type, [opts EXCEPT !.key_ring_size = key_index + 1],
                          plain.ssrc, material, key_index, count)
        r == CHOOSE x \in encryptFrame(st, plain, U32(0, 0)) : TRUE
    IN  [r.out[1] EXCEPT !.dir = "kReceiver", !.sealed = TRUE,
                         !.plain = plain.data, !.material = material,
                         !.sender_index = key_index, !.iv = r.iv]

\* A frame with one byte changed on the way.
Tamper(frame, pos) ==
    [frame EXCEPT !.data[pos] = (@ + 1) % 256, !.tampered = TRUE]

Ssrc1 == U32(4386, 13124)
Ssrc2 == U32(4386, 13125)
TsSmall == U32(0, 100)
TsBig == U32(4660, 22136)

AudioData == << 170, 72, 69, 76, 76, 79 >>
Material1 == << 1 >>
Material2 == << 2 >>

(***************************************************************************)
(* The main specification: an enabled transformer with an observer and a   *)
(* sink for Ssrc1, sending and receiving; the peer's key is the receiver's *)
(* key, that key ratcheted, or another key.                                *)
(***************************************************************************)
MaxFrames == 2
RatchetWindow == 2
KeyRingSize == 2
FailureThreshold == 1
MagicBytes == << 222, 173 >>

Options ==
    [shared_key |-> FALSE, ratchet_salt |-> << 5 >>,
     ratchet_window_size |-> RatchetWindow,
     uncrypted_magic_bytes |-> MagicBytes,
     key_ring_size |-> KeyRingSize,
     discard_frame_when_cryptor_not_ready |-> FALSE,
     failure_threshold |-> FailureThreshold]

MediaTypes == { "kAudioFrame", "kVideoFrame" }

\* A frame of the transformer's media type.
Media(type, dir, ssrc, timestamp) ==
    IF type = "kAudioFrame"
    THEN Frame(dir, ssrc, timestamp, "audio", FALSE, AudioData)
    ELSE Frame(dir, ssrc, timestamp, "kVideoCodecVP8", FALSE, << 9, 8, 7, 6, 5 >>)

SendFrames(type) ==
    { Media(type, "kSender", Ssrc1, TsBig),
      Media(type, "kSender", Ssrc2, TsBig) }

\* From the peer: sealed with the receiver's key, with that key ratcheted
\* once, with a key out of the ratchet's reach, and with a key index past
\* the receiver's ring.
RecvFrames(type) ==
    LET plain == Media(type, "kSender", Ssrc1, TsBig)
    IN  { RemoteFrame(type, Options, plain, RatchetTimes(Material1, k), 0, 0) :
             k \in { 0, 1, RatchetWindow + 1 } }
        \cup { RemoteFrame(type, Options, plain, Material1, KeyRingSize, 0) }

Init ==
    \E type \in MediaTypes, keyed \in BOOLEAN :
        StartsAs([WithSink(Constructed(type, Options,
                     IF keyed
                     THEN ProviderSetKey(NoProvider(Options), Options, Material1, 0)
                     ELSE NoProvider(Options)), Ssrc1)
                    EXCEPT !.enabled_cryption_ = TRUE, !.observer_ = TRUE])

\* The frames by media type, computed once.
SendFramesOf == [t \in MediaTypes |-> SendFrames(t)]
RecvFramesOf == [t \in MediaTypes |-> RecvFrames(t)]

Send == \E f \in SendFramesOf[type_] : calls < MaxFrames /\ Transform(f)

Receive == \E f \in RecvFramesOf[type_] : calls < MaxFrames /\ Transform(f)

Owner ==
    \/ \E b \in BOOLEAN : SetObserver(b)
    \/ \E i \in 0..1 : SetKeyIndex(i)
    \/ OwnerSetKey(Material1, 0)
    \/ OwnerInvalidateKey

Next == Send \/ Receive \/ RunEncrypt \/ RunDecrypt \/ Owner

Spec == Init /\ [][Next]_vars

(***************************************************************************)
(* The ratchet specification: a receiver holding Material1 at index 0 (and *)
(* Material2 at index 1) gets frames from a peer whose key is that         *)
(* material ratcheted k times, k up to past the window, and tampered       *)
(* frames.                                                                 *)
(***************************************************************************)
RatchetFrames(type) ==
    LET plain == Media(type, "kSender", Ssrc1, TsBig)
    IN  { RemoteFrame(type, Options, plain, RatchetTimes(Material1, k), 0, 0) :
             k \in 0..(RatchetWindow + 1) }
        \cup { RemoteFrame(type, Options, plain, RatchetTimes(Material2, k), 1, 0) :
                 k \in 0..1 }
        \cup { Tamper(RemoteFrame(type, Options, plain, Material1, 0, 0), 3) }

RatchetFramesOf == [t \in MediaTypes |-> RatchetFrames(t)]

InitRatchet ==
    \E type \in MediaTypes, both \in BOOLEAN :
        LET one == ProviderSetKey(NoProvider(Options), Options, Material1, 0)
            two == ProviderSetKey(one, Options, Material2, 1)
        IN  StartsAs([WithSink(Constructed(type, Options,
                                           IF both THEN two ELSE one), Ssrc1)
                        EXCEPT !.enabled_cryption_ = TRUE, !.observer_ = TRUE])

ReceiveRatchet ==
    \E f \in RatchetFramesOf[type_] : calls < MaxFrames /\ Transform(f)

NextRatchet == ReceiveRatchet \/ RunDecrypt

SpecRatchet == InitRatchet /\ [][NextRatchet]_vars

(***************************************************************************)
(* The wire specification: a transformer with a key at key_index_ seals    *)
(* frames of every codec and gets each sealed frame back as a receiver     *)
(* frame, as its peer with the same key at the same index would.           *)
(***************************************************************************)
H264Idr == << 0, 0, 1, 101, 136, 1, 2, 3 >>
H264Sps == << 0, 0, 1, 103, 66, 0, 0, 1, 65, 154, 129, 129, 130 >>
Vp8Key == << 16, 2, 0, 157, 1, 42, 64, 1, 240, 0, 77, 78 >>
Vp8Delta == << 17, 2, 0 >>
Av1Obu == << 10, 11, 12 >>

WireFrames(type) ==
    IF type = "kAudioFrame"
    THEN { Frame("kSender", Ssrc1, ts, "audio", FALSE, d) :
              ts \in { TsSmall, TsBig }, d \in { AudioData, << 7 >> } }
    ELSE { Frame("kSender", Ssrc1, TsBig, "kVideoCodecVP8", TRUE, Vp8Key),
           Frame("kSender", Ssrc1, TsSmall, "kVideoCodecVP8", FALSE, Vp8Delta),
           Frame("kSender", Ssrc1, TsSmall, "kVideoCodecAV1", FALSE, Av1Obu),
           Frame("kSender", Ssrc1, TsBig, "kVideoCodecH264", TRUE, H264Idr),
           Frame("kSender", Ssrc1, TsBig, "kVideoCodecH264", FALSE, H264Sps),
           Frame("kSender", Ssrc1, TsSmall, "kVideoCodecH264", TRUE, H264Idr) }

WireFramesOf == [t \in MediaTypes |-> WireFrames(t)]

InitWire ==
    \E type \in MediaTypes, i \in 0..(KeyRingSize - 1) :
        StartsAs([WithSink(Constructed(type, Options,
                     ProviderSetKey(NoProvider(Options), Options, Material1, i)), Ssrc1)
                    EXCEPT !.enabled_cryption_ = TRUE, !.observer_ = TRUE,
                           !.key_index_ = i])

SendWire == \E f \in WireFramesOf[type_] : calls < MaxFrames /\ Transform(f)

\* The frame last handed to the sink by encryptFrame comes back.
Loopback ==
    /\ delivered.sealed /\ delivered.dir = "kSender" /\ calls < MaxFrames + 1
    /\ Transform([delivered EXCEPT !.dir = "kReceiver"])

NextWire == SendWire \/ Loopback \/ RunEncrypt \/ RunDecrypt

SpecWire == InitWire /\ [][NextWire]_vars

(***************************************************************************)
(* The passthrough specification: a transformer with a key and a sink,     *)
(* enabled or not, discarding or not, gets frames to send, frames that end *)
(* with the magic bytes and sealed frames.                                 *)
(***************************************************************************)
\* A receiver frame of payload P followed by the magic bytes.
WithMagic(type, P) ==
    [Media(type, "kReceiver", Ssrc1, TsBig) EXCEPT
        !.data = P \o Options.uncrypted_magic_bytes, !.plain = P]

PassFrames(type) ==
    LET plain == Media(type, "kSender", Ssrc1, TsBig)
        remote == RemoteFrame(type, Options, plain, Material1, 0, 0)
        other == RemoteFrame(type, Options, plain, Material2, 0, 0)
    IN  { plain, [plain EXCEPT !.data = <<>>], remote, other }
        \cup { WithMagic(type, P) :
                 P \in { <<>>, << 9 >>, plain.data, remote.data,
                         Options.uncrypted_magic_bytes } }

PassFramesOf == [t \in MediaTypes |-> PassFrames(t)]

InitPass ==
    \E type \in MediaTypes, enabled \in BOOLEAN, discard \in BOOLEAN :
        LET opts == [Options EXCEPT !.discard_frame_when_cryptor_not_ready = discard]
        IN  StartsAs([WithSink(Constructed(type, opts,
                         ProviderSetKey(NoProvider(opts), opts, Material1, 0)), Ssrc1)
                        EXCEPT !.enabled_cryption_ = enabled, !.observer_ = TRUE])

TransformPass == \E f \in PassFramesOf[type_] : calls < MaxFrames /\ Transform(f)

NextPass ==
    \/ TransformPass
    \/ RunEncrypt
    \/ RunDecrypt
    \/ \E b \in BOOLEAN : SetEnabled(b)

SpecPass == InitPass /\ [][NextPass]_vars

(***************************************************************************)
(* The IV specification: a transformer sends frames of one ssrc; the send  *)
(* counter of the ssrc starts absent or at a value that as many calls of   *)
(* makeIv as it counts have left it at; the sink's owner may keep a frame. *)
(***************************************************************************)
MaxIvCalls == 4

\* send_counts_[Ssrc1] after 65534 and after 2^32 - 2 calls of makeIv.
IvStarts == { U32(0, 65534), U32(65535, 65534) }

IvFrames(type) ==
    { Media(type, "kSender", Ssrc1, ts) : ts \in { TsSmall, TsBig } }

IvFramesOf == [t \in MediaTypes |-> IvFrames(t)]

InitIv ==
    \E type \in MediaTypes :
        \E counts \in { [s \in {} |-> U32(0, 0)] }
                         \cup { [s \in {Ssrc1} |-> c] : c \in IvStarts } :
            StartsAs([WithSink(Constructed(type, Options,
                         ProviderSetKey(NoProvider(Options), Options, Material1, 0)), Ssrc1)
                        EXCEPT !.enabled_cryption_ = TRUE, !.observer_ = TRUE,
                               !.send_counts_ = counts])

SendIv == \E f \in IvFramesOf[type_] : calls < MaxIvCalls /\ Transform(f)

\* The sink's owner keeps the frame it was handed last.
Keep ==
    /\ delivered.id # 0 /\ kept # delivered
    /\ kept' = delivered
    /\ UNCHANGED << type_, algorithm_, enabled_cryption_, key_index_,
                    sink_callback_, sink_callbacks_, observer_, last_enc_error_,
                    last_dec_error_, send_counts_, provider, options, queue,
                    stopped, crashed, delivered, posted, missed, calls,
                    owner_ops, pc, ev >>

NextIv == SendIv \/ RunEncrypt \/ Keep

SpecIv == InitIv /\ [][NextIv]_vars

(***************************************************************************)
(* The shutdown specification: frames come in both directions, the worker  *)
(* runs its tasks step by step, and the transformer is destroyed at any    *)
(* moment: with tasks in the queue, with a task in flight, or at rest.     *)
(***************************************************************************)
NextStop ==
    \/ Send \/ Receive
    \/ WorkerTake \/ WorkerLock \/ WorkerFinish
    \/ DestroyBegin \/ WorkerDiscard \/ DestroyEnd

SpecStop == Init /\ [][NextStop]_vars

(***************************************************************************)
(* The sink specification: the owner registers and unregisters sinks while *)
(* frames come for an SSRC that has a sink and for one that has none.      *)
(***************************************************************************)
Sinks ==
    \E ssrc \in { Ssrc1, Ssrc2 } : RegisterSink(ssrc) \/ UnregisterSink(ssrc)

NextSinks == Send \/ Receive \/ RunEncrypt \/ RunDecrypt \/ Sinks

SpecSinks == Init /\ [][NextSinks]_vars

(***************************************************************************)
(* The decrypt specification: a receiver holding Material1 at index 0 gets *)
(* frames its key opens, frames a ratcheted key opens, frames no key within *)
(* the window opens, frames with a changed header, frames whose trailer    *)
(* names another IV length or an index outside the ring, while the owner   *)
(* clears has_valid_key or sets the key again.                             *)
(***************************************************************************)
DecryptFrames(type) ==
    LET plain == Media(type, "kSender", Ssrc1, TsBig)
        good == RemoteFrame(type, Options, plain, Material1, 0, 0)
        h264 == Frame("kSender", Ssrc1, TsBig, "kVideoCodecH264", FALSE, H264Sps)
    IN  { RemoteFrame(type, Options, plain, RatchetTimes(Material1, k), 0, 0) :
             k \in { 0, 1, RatchetWindow + 1 } }
        \cup { RemoteFrame(type, Options, plain, Material1, KeyRingSize, 0),
               Tamper(good, 1),
               Tamper(good, Len(good.data) - 1) }
        \cup (IF type = "kVideoFrame"
              THEN { RemoteFrame(type, Options, h264, Material1, 0, 0) }
              ELSE {})

DecryptFramesOf == [t \in MediaTypes |-> DecryptFrames(t)]

InitDecrypt ==
    \E type \in MediaTypes :
        StartsAs([WithSink(Constructed(type, Options,
                     ProviderSetKey(NoProvider(Options), Options, Material1, 0)),
                           Ssrc1)
                    EXCEPT !.enabled_cryption_ = TRUE, !.observer_ = TRUE])

ReceiveDecrypt ==
    \E f \in DecryptFramesOf[type_] : calls < MaxFrames /\ Transform(f)

KeyOwner == OwnerSetKey(Material1, 0) \/ OwnerInvalidateKey

NextDecrypt == ReceiveDecrypt \/ RunDecrypt \/ KeyOwner

SpecDecrypt == InitDecrypt /\ [][NextDecrypt]_vars

(***************************************************************************)
(* The lock specification: Transform on the transport thread and the       *)
(* handlers on the worker thread run step by step, each taking the lock    *)
(* the code takes, while the owner unregisters the sink.                   *)
(***************************************************************************)
EnterLocks ==
    \E f \in SendFramesOf[type_] : calls < MaxFrames /\ TransformEnter(f)

UnregisterLocks == pc.transport.holds # "sink_mutex_" /\ UnregisterSink(Ssrc1)

NextLocks ==
    \/ EnterLocks \/ TransformLeave
    \/ WorkerTake \/ WorkerLock \/ WorkerFinish
    \/ UnregisterLocks

SpecLocks == Init /\ [][NextLocks]_vars

(***************************************************************************)
(* The prefix specification: a keyed transformer seals frames of every     *)
(* codec, among them H.264 frames whose first slice NALU starts near the   *)
(* front, far from it (past byte 254), or is missing.                      *)
(***************************************************************************)
FarOffset == 250

\* A parameter-set NALU of FarOffset bytes, then an IDR slice.
H264Far ==
    << 0, 0, 1, 103 >> \o [i \in 1..FarOffset |-> 66] \o << 0, 0, 1, 101, 136, 1, 2, 3 >>

\* A parameter-set NALU only.
H264NoSlice == << 0, 0, 1, 103, 66, 1, 2 >>

PrefixFrames(type) ==
    IF type = "kAudioFrame"
    THEN { Frame("kSender", Ssrc1, TsBig, "audio", FALSE, d) :
              d \in { AudioData, << 7 >> } }
    ELSE { Frame("kSender", Ssrc1, TsBig, "kVideoCodecVP8", TRUE, Vp8Key),
           Frame("kSender", Ssrc1, TsBig, "kVideoCodecVP8", FALSE, Vp8Delta),
           Frame("kSender", Ssrc1, TsBig, "kVideoCodecAV1", FALSE, Av1Obu),
           Frame("kSender", Ssrc1, TsBig, "kVideoCodecH264", TRUE, H264Idr),
           Frame("kSender", Ssrc1, TsBig, "kVideoCodecH264", FALSE, H264Sps),
           Frame("kSender", Ssrc1, TsBig, "kVideoCodecH264", FALSE, H264NoSlice) }

\* The frames get_unencrypted_bytes is applied to on their own.
LongFrames(type) ==
    PrefixFrames(type)
    \cup { Frame("kSender", Ssrc1, TsBig, "kVideoCodecH264", k, H264Far) :
             k \in BOOLEAN }

PrefixFramesOf == [t \in MediaTypes |-> PrefixFrames(t)]
LongFramesOf == [t \in MediaTypes |-> LongFrames(t)]

SendPrefix == \E f \in PrefixFramesOf[type_] : calls < MaxFrames /\ Transform(f)

\* get_unencrypted_bytes(frame, type_), as both handlers call it on the
\* frame they got.
Measure ==
    /\ ~crashed /\ ~stopped
    /\ \E f \in LongFramesOf[type_] :
          ev' = Event("get_unencrypted_bytes", f, [Result(Self) EXCEPT !.unencrypted_bytes = get_unencrypted_bytes(f, type_)], <<>>)
    /\ UNCHANGED << type_, algorithm_, enabled_cryption_, key_index_,
                    sink_callback_, sink_callbacks_, observer_, last_enc_error_,
                    last_dec_error_, send_counts_, provider, options, queue,
                    stopped, crashed, delivered, posted, missed, kept, calls,
                    owner_ops, pc >>

NextPrefix == SendPrefix \/ RunEncrypt \/ Measure

SpecPrefix == InitWire /\ [][NextPrefix]_vars

(***************************************************************************)
(* The short-frame specification: a keyed transformer gets payloads too    *)
(* short for what the handlers take from them: shorter than the clear      *)
(* prefix, than the trailer, than IV and trailer, than the tag; and the    *)
(* shortest frames that hold all of them.                                  *)
(***************************************************************************)
\* prefix (1) + 5 bytes + IV + trailer: a ciphertext shorter than the tag.
ShortOfTag == << 7, 1, 2, 3, 4, 5 >> \o [i \in 1..IvLen |-> i] \o << IvLen, 0 >>

\* prefix (1) + IV + trailer: no ciphertext at all.
NoCiphertext == << 7 >> \o [i \in 1..IvLen |-> i] \o << IvLen, 0 >>

ShortFrames(type) ==
    IF type = "kAudioFrame"
    THEN { Frame("kSender", Ssrc1, TsBig, "audio", FALSE, << 7 >>),
           RemoteFrame(type, Options,
               Frame("kSender", Ssrc1, TsBig, "audio", FALSE, << 7 >>),
               Material1, 0, 0) }
         \cup { Frame("kReceiver", Ssrc1, TsBig, "audio", FALSE, d) :
                  d \in { << 0 >>, << IvLen, 0 >>, << 7, IvLen + 1, 0 >>,
                          << 7, IvLen, KeyRingSize >>, << 7, IvLen, 0 >>,
                          NoCiphertext, ShortOfTag } }
    ELSE { Frame("kSender", Ssrc1, TsBig, "kVideoCodecVP8", TRUE, << 16, 2, 0, 157, 1 >>),
           Frame("kSender", Ssrc1, TsBig, "kVideoCodecVP8", FALSE, << 17, 2 >>),
           Frame("kSender", Ssrc1, TsBig, "kVideoCodecVP8", FALSE, Vp8Delta),
           Frame("kSender", Ssrc1, TsBig, "kVideoCodecAV1", FALSE, << 10 >>),
           Frame("kReceiver", Ssrc1, TsBig, "kVideoCodecVP8", TRUE, << 16, 2, IvLen + 1, 0 >>),
           Frame("kReceiver", Ssrc1, TsBig, "kVideoCodecVP8", TRUE, << 16, 2, IvLen, 0 >>),
           Frame("kReceiver", Ssrc1, TsBig, "kVideoCodecAV1", FALSE, << IvLen, 0 >>),
           Frame("kReceiver", Ssrc1, TsBig, "kVideoCodecAV1", FALSE, << 0 >>),
           Frame("kReceiver", Ssrc1, TsBig, "kVideoCodecH264", TRUE, << 0, 0, 1, 101, IvLen, 0 >>),
           Frame("kReceiver", Ssrc1, TsBig, "kVideoCodecAV1", FALSE, Drop(ShortOfTag, 1)) }

ShortFramesOf == [t \in MediaTypes |-> ShortFrames(t)]

TransformShort ==
    \E f \in ShortFramesOf[type_] : calls < MaxFrames /\ Transform(f)

NextShort == TransformShort \/ RunEncrypt \/ RunDecrypt

SpecShort == InitDecrypt /\ [][NextShort]_vars

(***************************************************************************)
(* The waiting specification: a receiver holds Material1 at index 0 while  *)
(* its peer sends with Material2 at that index; has_valid_key is set or    *)
(* has been cleared by the owner.  Frames of the peer, frames whose        *)
(* trailer names an index outside the ring or another IV length come in;   *)
(* the owner sets the peer's key or clears has_valid_key.                  *)
(***************************************************************************)
MaxGuardFrames == 3

GuardFrames(type) ==
    LET plain == Media(type, "kSender", Ssrc1, TsBig)
        peer == RemoteFrame(type, Options, plain, Material2, 0, 0)
        h264 == Frame("kSender", Ssrc1, TsSmall, "kVideoCodecH264", TRUE, H264Idr)
    IN  { peer,
          RemoteFrame(type, Options, plain, Material2, KeyRingSize, 0),
          [peer EXCEPT !.data[Len(peer.data) - 1] = IvLen + 1, !.tampered = TRUE] }
        \cup (IF type = "kVideoFrame"
              THEN { RemoteFrame(type, Options, h264, Material2, 0, 0) }
              ELSE {})

GuardFramesOf == [t \in MediaTypes |-> GuardFrames(t)]

InitGuard ==
    \E type \in MediaTypes, valid \in BOOLEAN :
        LET prov == ProviderSetKey(NoProvider(Options), Options, Material1, 0)
            h == LookupKeyHandler(prov, Options)
        IN  StartsAs([WithSink(Constructed(type, Options,
                         StoreKeyHandler(prov, Options,
                             [h EXCEPT !.has_valid_key = valid])), Ssrc1)
                        EXCEPT !.enabled_cryption_ = TRUE, !.observer_ = TRUE])

ReceiveGuard ==
    \E f \in GuardFramesOf[type_] : calls < MaxGuardFrames /\ Transform(f)

KeyGuard == OwnerSetKey(Material2, 0) \/ OwnerInvalidateKey

NextGuard == ReceiveGuard \/ RunDecrypt \/ KeyGuard

SpecGuard == InitGuard /\ [][NextGuard]_vars

(***************************************************************************)
(* The rollback specification: a receiver holds Material1 at index 0 and   *)
(* Material2 at index 1, set in that order, with ratcheting on or off, and *)
(* gets frames for either index: frames its keys open, frames a ratcheted  *)
(* key opens, frames no key in reach opens, and a tampered frame.          *)
(***************************************************************************)
InitRollback ==
    \E type \in MediaTypes, window \in { 0, RatchetWindow } :
        LET opts == [Options EXCEPT !.ratchet_window_size = window]
            one == ProviderSetKey(NoProvider(opts), opts, Material1, 0)
            two == ProviderSetKey(one, opts, Material2, 1)
        IN  StartsAs([WithSink(Constructed(type, opts, two), Ssrc1)
                        EXCEPT !.enabled_cryption_ = TRUE, !.observer_ = TRUE])

ReceiveRollback ==
    \E f \in RatchetFramesOf[type_] : calls < MaxFrames /\ Transform(f)

NextRollback == ReceiveRollback \/ RunDecrypt

SpecRollback == InitRollback /\ [][NextRollback]_vars

(***************************************************************************)
(* Properties of Spec                                                      *)
(***************************************************************************)
Ran == ev.op \in { "encryptFrame", "decryptFrame" }

\* The handler's last-state field before and after the step ev records.
LastBefore == IF ev.op = "encryptFrame" THEN ev.pre.last_enc_error_
              ELSE ev.pre.last_dec_error_
LastAfter == IF ev.op = "encryptFrame" THEN last_enc_error_ ELSE last_dec_error_
PostedBefore == IF ev.op = "encryptFrame" THEN ev.pre.posted.enc
                ELSE ev.pre.posted.dec

HandlerBefore == LookupKeyHandler(ev.pre.provider, options)
HandlerNow == LookupKeyHandler(provider, options)

\* The states the path taken by the last step produces, in order.
Produced ==
    IF ev.path = "no_sink" THEN << "kInternalError" >>
    ELSE IF ev.path = "missing_key" THEN << "kMissingKey" >>
    ELSE IF ev.path = "encrypted" THEN << "kOk" >>
    ELSE IF ev.path = "encrypt_failed" THEN << "kEncryptionFailed" >>
    ELSE IF ev.path = "bad_iv_len" THEN << "kDecryptionFailed" >>
    ELSE IF ev.path = "decrypted" THEN << "kOk" >>
    ELSE IF ev.path = "ratcheted" THEN << "kKeyRatcheted", "kOk" >>
    ELSE IF ev.path = "decrypt_failed"
              /\ HandlerBefore.failure_count + 1 >= options.failure_threshold
         THEN << "kDecryptionFailed" >>
    ELSE <<>>

\* s without the elements equal to their predecessor, last being the
\* predecessor of the first.
RECURSIVE Edges(_, _)
Edges(last, s) ==
    IF s = <<>> THEN <<>>
    ELSE IF Head(s) = last THEN Edges(last, Tail(s))
    ELSE << Head(s) >> \o Edges(Head(s), Tail(s))

\* C1: each handler passes a state to the observer exactly when the state its
\* path produces differs from the direction's last state, which then becomes
\* that state; so, while no state change has found the observer unset, the
\* states posted for a direction never repeat in succession.
C1_EdgeTriggered ==
    Ran =>
        /\ ev.notes = Edges(LastBefore, Produced)
        /\ LastAfter = (IF Produced = <<>> THEN LastBefore ELSE Last(Produced))
        /\ ~missed =>
              /\ ev.sent = ev.notes
              /\ \A i \in 1..Len(ev.sent) :
                    ev.sent[i] # (IF i = 1 THEN PostedBefore ELSE ev.sent[i - 1])

\* C1 witness: a second frame in a row without a key: the state is produced
\* again and nothing is posted.
C1_Witness ==
    /\ ev.op = "decryptFrame" /\ ev.path = "missing_key" /\ ~missed
    /\ ev.pre.posted.dec = "kMissingKey" /\ ev.sent = <<>>

SinkBefore ==
    IF type_ = "kAudioFrame" THEN ev.pre.sink_callback_ # "nullptr"
    ELSE /\ ev.frame.ssrc \in DOMAIN ev.pre.sink_callbacks_
         /\ ev.pre.sink_callbacks_[ev.frame.ssrc] # "nullptr"

EndsWithMagic(data) ==
    /\ Len(options.uncrypted_magic_bytes) > 0
    /\ Len(data) >= Len(options.uncrypted_magic_bytes)
    /\ Drop(data, Len(data) - Len(options.uncrypted_magic_bytes))
          = options.uncrypted_magic_bytes

\* The last step was a handler that came to its key lookup.
CameToKeys ==
    /\ Ran /\ SinkBefore /\ ev.pre.enabled_cryption_ /\ ev.frame.data # <<>>
    /\ ev.op = "decryptFrame" =>
          /\ ~EndsWithMagic(ev.frame.data) /\ ~ev.oob
          /\ Len(ev.frame.data) >= 2
          /\ ev.frame.data[Len(ev.frame.data) - 1] = getIvSize(algorithm_)

TrailerIndex == ev.frame.data[Len(ev.frame.data)]

\* ... and found no key: for encryptFrame at key_index_, for decryptFrame at
\* the trailer's index.
MissingKeyCase ==
    /\ CameToKeys
    /\ IF ev.op = "encryptFrame"
       THEN \/ ~HandlerBefore.present
            \/ GetKeySet(HandlerBefore, ev.pre.key_index_) = NullKeySet
       ELSE \/ TrailerIndex >= options.key_ring_size
            \/ ~HandlerBefore.present
            \/ GetKeySet(HandlerBefore, TrailerIndex) = NullKeySet

\* C10: a handler that finds no handler, no key set at its index or (decrypt)
\* a trailer index outside the ring drops the frame without a cipher
\* operation or a ratchet, and posts kMissingKey only if the direction's last
\* state was another; a handler that finds a key does not take this path.
C10_MissingKey ==
    /\ MissingKeyCase =>
          /\ ev.path = "missing_key"
          /\ ev.out = <<>> /\ delivered.id = ev.pre.delivered_id
          /\ ev.cipher_ops = 0 /\ ev.ratchets = 0 /\ ~ev.failure_called
          /\ provider = ev.pre.provider
          /\ ev.notes = IF LastBefore = "kMissingKey" THEN <<>>
                        ELSE << "kMissingKey" >>
          /\ LastAfter = "kMissingKey"
    /\ CameToKeys /\ ~MissingKeyCase => ev.path # "missing_key"

\* C10 witness: the second frame in a row whose trailer names an index
\* outside the ring of a handler that has a key: nothing is posted for it.
C10_Witness ==
    /\ MissingKeyCase /\ ev.op = "decryptFrame"
    /\ TrailerIndex >= options.key_ring_size
    /\ HandlerBefore.present /\ HandlerBefore.has_valid_key
    /\ LastBefore = "kMissingKey" /\ ev.notes = <<>> /\ ev.path = "missing_key"

\* C10, the encrypting side: no key set at key_index_.
C10_WitnessEncrypt ==
    /\ MissingKeyCase /\ ev.op = "encryptFrame" /\ HandlerBefore.present
    /\ ev.notes = << "kMissingKey" >>

(***************************************************************************)
(* Properties of SpecRatchet                                               *)
(***************************************************************************)
\* The key set the receiver held, and holds, at the index the last frame's
\* trailer names.
KeySetBefore == GetKeySet(HandlerBefore, TrailerIndex)
KeySetNow == GetKeySet(HandlerNow, TrailerIndex)

\* decryptFrame came to open a frame as the peer sealed it.
CameToOpen ==
    /\ CameToKeys /\ ~MissingKeyCase /\ ev.op = "decryptFrame"
    /\ ev.path # "wait_key" /\ ev.frame.sealed

\* ... and the peer's key is the receiver's, ratcheted k times.
PeerAhead(k) ==
    /\ CameToOpen /\ ~ev.frame.tampered
    /\ ev.frame.sender_index = TrailerIndex
    /\ ev.frame.material = RatchetTimes(KeySetBefore.material, k)

DeliveredPlain ==
    /\ Len(ev.out) = 1 /\ ev.out[1].data = ev.frame.plain
    /\ delivered.id = ev.frame.id /\ delivered.data = ev.frame.plain

\* C2: a frame from a peer whose key is the receiver's ratcheted k times,
\* 1 <= k <= ratchet_window_size, is opened and handed to the sink, and the
\* receiver then holds the peer's material at that index; a frame sealed with
\* the material the receiver holds is opened without a ratchet attempt.
C2_RatchetConverges ==
    /\ \A k \in 1..options.ratchet_window_size :
          PeerAhead(k) =>
             /\ DeliveredPlain
             /\ ev.ratchets = k
             /\ KeySetNow.material = ev.frame.material
    /\ PeerAhead(0) => DeliveredPlain /\ ev.ratchets = 0

\* C2 witness: the peer is exactly ratchet_window_size steps ahead; the frame
\* is handed to the sink after that many attempts.
C2_Witness ==
    /\ PeerAhead(options.ratchet_window_size)
    /\ DeliveredPlain /\ ev.ratchets = options.ratchet_window_size
    /\ "kKeyRatcheted" \in { ev.notes[i] : i \in 1..Len(ev.notes) }

\* The part of C2 that holds: below the window's last step.
C2_BelowWindow ==
    /\ \A k \in 1..(options.ratchet_window_size - 1) :
          PeerAhead(k) =>
             /\ DeliveredPlain
             /\ ev.ratchets = k
             /\ KeySetNow.material = ev.frame.material
    /\ PeerAhead(0) => DeliveredPlain /\ ev.ratchets = 0
    /\ PeerAhead(options.ratchet_window_size) =>
          DeliveredPlain /\ KeySetNow = KeySetBefore

\* No key within the window opens the frame.
OutOfReach ==
    /\ CameToOpen
    /\ \/ ev.frame.tampered
       \/ ev.frame.sender_index # TrailerIndex
       \/ \A k \in 0..options.ratchet_window_size :
             ev.frame.material # RatchetTimes(KeySetBefore.material, k)

\* C3: when neither the installed key nor any of the ratchet_window_size
\* ratcheted keys opens the frame, the frame is not handed to the sink and
\* the receiver holds at the frame's index the key set it held before.
C3_RatchetRollback ==
    /\ OutOfReach => ev.path = "decrypt_failed"
    /\ ev.path = "decrypt_failed" /\ ~ev.oob =>
          /\ OutOfReach
          /\ ev.ratchets = options.ratchet_window_size
          /\ ev.cipher_ops = options.ratchet_window_size + 1
          /\ ev.out = <<>> /\ delivered.id = ev.pre.delivered_id
          /\ KeySetNow = KeySetBefore

\* C3 witness: a frame from a peer one step past the window.
C3_Witness ==
    /\ OutOfReach /\ ~ev.frame.tampered /\ ev.path = "decrypt_failed"
    /\ ev.frame.material =
          RatchetTimes(KeySetBefore.material, options.ratchet_window_size + 1)
    /\ ev.ratchets = options.ratchet_window_size /\ KeySetNow = KeySetBefore

(***************************************************************************)
(* Properties of SpecWire                                                  *)
(***************************************************************************)
\* decryptFrame ran, with its sink, on a frame as encryptFrame sealed it, and
\* the receiver holds the sender's key set at the sender's index.
RoundTripCase ==
    /\ ev.op = "decryptFrame" /\ SinkBefore /\ ev.pre.enabled_cryption_
    /\ ev.frame.sealed /\ ~ev.frame.tampered
    /\ Len(ev.frame.plain) >= get_unencrypted_bytes([ev.frame EXCEPT !.data = ev.frame.plain], type_)
    /\ HandlerBefore.present
    /\ GetKeySet(HandlerBefore, ev.frame.sender_index).material = ev.frame.material
    /\ ~(ev.pre.last_dec_error_ = "kDecryptionFailed" /\ ~HandlerBefore.has_valid_key)

\* C4: decryptFrame on what encryptFrame made of a frame hands to the sink a
\* frame whose payload is the original payload, for every codec.
C4_RoundTrip == RoundTripCase => DeliveredPlain

\* C4 witness: the round trip of an H.264 frame whose sealed bytes took an
\* emulation prevention byte.
C4_Witness ==
    /\ RoundTripCase /\ ev.frame.codec = "kVideoCodecH264" /\ type_ = "kVideoFrame"
    /\ Len(ev.frame.data) > Len(ev.frame.plain) + TagLen + IvLen + 2
    /\ DeliveredPlain

\* The part of C4 that holds: every codec but H.264.
C4_RoundTripNotH264 ==
    RoundTripCase /\ ~FrameIsH264(ev.frame, type_) => DeliveredPlain

\* The last step was encryptFrame handing a sealed frame to its sink.
Sealed ==
    /\ ev.op = "encryptFrame" /\ ev.pre.enabled_cryption_
    /\ ev.frame.data # <<>> /\ ev.out # <<>>

Unchanged ==
    /\ last_enc_error_ = ev.pre.last_enc_error_
    /\ last_dec_error_ = ev.pre.last_dec_error_
    /\ send_counts_ = ev.pre.send_counts_
    /\ provider = ev.pre.provider
    /\ ev.notes = <<>> /\ ev.sent = <<>> /\ posted = ev.pre.posted
    /\ ~ev.key_lookup /\ ev.cipher_ops = 0 /\ ev.ratchets = 0

\* decryptFrame ran, enabled and with its sink, on a payload that ends with
\* the magic bytes.
MagicCase ==
    /\ ev.op = "decryptFrame" /\ SinkBefore /\ ev.pre.enabled_cryption_
    /\ EndsWithMagic(ev.frame.data)

WithoutMagic(data) == Take(data, Len(data) - Len(options.uncrypted_magic_bytes))

\* C6: decryptFrame, enabled and with a sink, hands a frame whose payload is
\* P followed by the magic bytes to the sink with payload P, for every P, the
\* empty one too; it reads no trailer, looks up no key and leaves
\* last_dec_error_ as it was.
C6_MagicPassthrough ==
    MagicCase =>
        /\ ev.out = << [ev.frame EXCEPT !.data = WithoutMagic(ev.frame.data)] >>
        /\ delivered.id = ev.frame.id
        /\ delivered.data = WithoutMagic(ev.frame.data)
        /\ delivered.data = ev.frame.plain
        /\ ~ev.trailer_read
        /\ Unchanged

\* C6 witness: the payload is the magic bytes alone, after a frame left
\* last_dec_error_ at another state than kOk.
C6_Witness ==
    /\ MagicCase /\ ev.frame.data = options.uncrypted_magic_bytes
    /\ Len(ev.out) = 1 /\ ev.out[1].data = <<>>
    /\ ev.pre.last_dec_error_ = "kDecryptionFailed"
    /\ last_dec_error_ = "kDecryptionFailed"

\* A handler ran, with its sink, while the cryptor was disabled.
DisabledCase == Ran /\ SinkBefore /\ ~ev.pre.enabled_cryption_

\* C7: a frame handled while the cryptor is disabled is handed to the sink
\* once and as it came if discard_frame_when_cryptor_not_ready is false, and
\* dropped if it is true; either way without a key lookup, a send counter
\* change or a notification.
C7_DisabledPassthrough ==
    DisabledCase =>
        /\ Unchanged
        /\ IF options.discard_frame_when_cryptor_not_ready
           THEN ev.out = <<>> /\ delivered.id = ev.pre.delivered_id
           ELSE ev.out = << ev.frame >> /\ delivered = ev.frame

\* C7 witness: a sealed frame passes a disabled receiver as it came.
C7_Witness ==
    /\ DisabledCase /\ ~options.discard_frame_when_cryptor_not_ready
    /\ ev.op = "decryptFrame" /\ ev.frame.sealed
    /\ ev.out = << ev.frame >> /\ delivered.data = ev.frame.data

(***************************************************************************)
(* Properties of SpecIv                                                    *)
(***************************************************************************)
\* The IV in the bytes of a sealed frame that is not H.264.
IvOf(frame) ==
    SubSeq(frame.data, Len(frame.data) - IvLen - 1, Len(frame.data) - 2)

\* encryptFrame sealed a frame of the ssrc and timestamp of the kept frame,
\* which it sealed earlier.
SameStream ==
    /\ Sealed /\ kept.sealed /\ kept.dir = "kSender"
    /\ kept.id < ev.out[1].id
    /\ kept.ssrc = ev.out[1].ssrc /\ kept.timestamp = ev.out[1].timestamp

\* The send counter went from 2^32 - 1 to 0 after the kept frame was sealed.
CounterWrapped ==
    /\ Ssrc1 \in DOMAIN send_counts_
    /\ send_counts_[Ssrc1].hi = 0
    /\ ev.out[1].id + 1 - kept.id > send_counts_[Ssrc1].lo

\* C9: two frames of one ssrc and one timestamp that encryptFrame sealed
\* fewer than 65536 makeIv calls apart carry different IVs.
C9_IvDistinct ==
    SameStream /\ ev.out[1].id - kept.id < 65535 => IvOf(kept) # IvOf(ev.out[1])

\* C9 witness: two such frames, sealed one right after the other starting
\* from a counter of 2^32 - 1, carry the same IV.
C9_Witness ==
    /\ SameStream /\ ev.out[1].id = kept.id + 1
    /\ send_counts_[Ssrc1] = U32(0, 1)
    /\ IvOf(kept) = IvOf(ev.out[1])

\* The part of C9 that holds: the IVs differ unless the 32-bit counter went
\* from 2^32 - 1 to 0 between the two frames.
C9_IvDistinctBeforeWrap ==
    SameStream /\ ~CounterWrapped => IvOf(kept) # IvOf(ev.out[1])

(***************************************************************************)
(* Further properties of SpecRatchet                                       *)
(***************************************************************************)
\* The peer is one ratchet step ahead and the window has room for more.
OneStepAhead == PeerAhead(1) /\ options.ratchet_window_size >= 2

C13_WitnessNext ==
    /\ PeerAhead(0) /\ ev.frame.id = 2 /\ ev.notes = <<>>
    /\ KeySetNow.material = RatchetTimes(Material1, 1)

(***************************************************************************)
(* Properties of SpecDecrypt                                               *)
(***************************************************************************)
\* decryptFrame came to the trailer of its frame: a sink, the cryptor
\* enabled, a payload that is not empty and does not end in the magic bytes.
CameToTrailer ==
    /\ ev.op = "decryptFrame" /\ SinkBefore
    /\ ev.pre.enabled_cryption_ /\ ev.frame.data # <<>>
    /\ ~EndsWithMagic(ev.frame.data)

\* ... and the trailer names an IV length other than getIvSize().
BadIvLen ==
    /\ CameToTrailer /\ Len(ev.frame.data) >= 2
    /\ ev.frame.data[Len(ev.frame.data) - 1] # getIvSize(algorithm_)

\* The last step made kDecryptionFailed the last state or passed it on.
TurnedFailed ==
    /\ ev.op = "decryptFrame"
    /\ \/ \E i \in DOMAIN ev.notes : ev.notes[i] = "kDecryptionFailed"
       \/ last_dec_error_ = "kDecryptionFailed"
             /\ ev.pre.last_dec_error_ # "kDecryptionFailed"

\* No key opened the frame, every ratchet attempt was made, and
\* DecryptionFailure() was called and returned true.
FailedThroughHandler ==
    /\ OutOfReach
    /\ ev.cipher_ops = options.ratchet_window_size + 1
    /\ ev.ratchets = options.ratchet_window_size
    /\ ev.failure_called
    /\ HandlerNow.failure_count = HandlerBefore.failure_count + 1
    /\ HandlerNow.failure_count >= options.failure_threshold

\* C14 as stated: last_dec_error_ becomes kDecryptionFailed, and
\* kDecryptionFailed is passed on, only by a frame that no key opened, with
\* the ratchet exhausted, for which DecryptionFailure() was called and
\* returned true.
C14_OnlyThroughHandler == TurnedFailed => FailedThroughHandler

\* C14 as amended: ... or by a frame whose trailer names an IV length other
\* than getIvSize(), for which no key is looked up, nothing is opened and
\* DecryptionFailure() is not called.
C14_HandlerOrIvLength ==
    TurnedFailed =>
        \/ FailedThroughHandler
        \/ /\ BadIvLen
           /\ ~ev.key_lookup /\ ev.cipher_ops = 0 /\ ~ev.failure_called
           /\ provider = ev.pre.provider /\ ev.out = <<>>

\* A frame with a wrong IV length has turned the last state to
\* kDecryptionFailed.
C14_Witness ==
    /\ TurnedFailed /\ BadIvLen
    /\ ev.notes = << "kDecryptionFailed" >> /\ ~ev.failure_called

\* A frame that no key opens has done so through the handler.
C14_WitnessHandler ==
    /\ TurnedFailed /\ FailedThroughHandler
    /\ ev.notes = << "kDecryptionFailed" >>

\* decryptFrame found a key set for a frame with a valid trailer while the
\* last state was kDecryptionFailed and the handler had no valid key.
WaitCase ==
    /\ CameToKeys /\ ev.op = "decryptFrame" /\ ~MissingKeyCase
    /\ ev.pre.last_dec_error_ = "kDecryptionFailed"
    /\ ~HandlerBefore.has_valid_key

\* C16: such a frame is dropped and nothing else changes: nothing is opened,
\* no ratchet is tried, DecryptionFailure() is not called, no key is
\* installed, last_dec_error_ stays kDecryptionFailed and no state is passed
\* to the observer.
C16_WaitForKey ==
    WaitCase =>
        /\ ev.out = <<>> /\ delivered.id = ev.pre.delivered_id
        /\ ev.cipher_ops = 0 /\ ev.ratchets = 0 /\ ~ev.failure_called
        /\ provider = ev.pre.provider
        /\ last_dec_error_ = "kDecryptionFailed"
        /\ last_enc_error_ = ev.pre.last_enc_error_
        /\ send_counts_ = ev.pre.send_counts_
        /\ sink_callbacks_ = ev.pre.sink_callbacks_
        /\ ev.notes = <<>> /\ posted = ev.pre.posted

\* A frame the receiver's key opens came while the receiver waited for a
\* new key, and was dropped.
C16_Witness ==
    /\ WaitCase
    /\ ev.frame.sealed /\ ~ev.frame.tampered
    /\ ev.frame.material = KeySetBefore.material
    /\ ev.out = <<>> /\ ev.cipher_ops = 0

(***************************************************************************)
(* Further properties of SpecWire                                          *)
(***************************************************************************)
\* decryptFrame got an H.264 frame as encryptFrame sealed it, with emulation
\* prevention bytes in its suffix.
EscapedCase ==
    /\ RoundTripCase /\ FrameIsH264(ev.frame, type_)
    /\ Len(ev.frame.data) > Len(ev.frame.plain) + TagLen + IvLen + 2

\* C17: for such a frame the IV decryptFrame opens with is the IV makeIv
\* gave the sender, and the trailer it reads is the one the sender wrote:
\* getIvSize() and the sender's key index.
C17_IvAfterUnescape ==
    EscapedCase =>
        /\ ev.iv = ev.frame.iv
        /\ ev.frame.data[Len(ev.frame.data) - 1] = getIvSize(algorithm_)
        /\ TrailerIndex = ev.frame.sender_index

\* An escaped H.264 frame whose IV holds no 0x00 0x00 and was read as sent.
C17_Witness ==
    /\ EscapedCase /\ ev.iv = ev.frame.iv
    /\ WriteRbsp(ev.frame.iv) = ev.frame.iv
    /\ DeliveredPlain

\* An escaped H.264 frame whose IV holds 0x00 0x00 and was read displaced.
C17_WitnessDisplaced ==
    /\ EscapedCase /\ ev.iv # ev.frame.iv /\ Len(ev.iv) = IvLen
    /\ WriteRbsp(ev.frame.iv) # ev.frame.iv
    /\ ev.out = <<>>

(***************************************************************************)
(* Further properties of SpecIv                                            *)
(***************************************************************************)
\* The counter the claim has makeIv use for the frame of the last step: the
\* stored one, or on the first call for the ssrc the random value drawn.
CounterUsed ==
    IF ev.frame.ssrc \in DOMAIN ev.pre.send_counts_
    THEN ev.pre.send_counts_[ev.frame.ssrc]
    ELSE ev.rnd

\* ssrc, timestamp and timestamp - (c mod 0x10000), big-endian.
IvFor(ssrc, timestamp, c) ==
    WriteUInt32(ssrc) \o WriteUInt32(timestamp)
        \o WriteUInt32(U32SubSmall(timestamp, c.lo))

\* The counters after the call are those before, with c + 1 for the ssrc.
CountersStepped ==
    /\ DOMAIN send_counts_ = DOMAIN ev.pre.send_counts_ \cup { ev.frame.ssrc }
    /\ send_counts_[ev.frame.ssrc] = U32Inc(CounterUsed)
    /\ \A s \in DOMAIN ev.pre.send_counts_ \ { ev.frame.ssrc } :
          send_counts_[s] = ev.pre.send_counts_[s]

\* C18: the IV of a sealed frame is ssrc, timestamp and
\* timestamp - (c mod 0x10000), where c is the ssrc's stored counter or, on
\* the ssrc's first call, the random value the counter is initialised to;
\* the call leaves c + 1 stored and the other counters as they were.
C18_IvConstruction ==
    Sealed =>
        /\ IvOf(ev.out[1]) = IvFor(ev.frame.ssrc, ev.frame.timestamp, CounterUsed)
        /\ CountersStepped

\* A call for an ssrc whose counter is below 0xFFFF: the IV and the counter
\* are as the claim says.
C18_Witness ==
    /\ Sealed /\ ev.frame.ssrc \in DOMAIN ev.pre.send_counts_
    /\ CounterUsed = U32(0, 65534)
    /\ IvOf(ev.out[1]) = IvFor(ev.frame.ssrc, ev.frame.timestamp, CounterUsed)
    /\ CountersStepped

\* The first call for an ssrc, with a random value other than 0: the IV is
\* made from 0 and 1 is stored.
C18_WitnessFirst ==
    /\ Sealed /\ ev.frame.ssrc \notin DOMAIN ev.pre.send_counts_
    /\ ev.rnd = U32(0, 40000)
    /\ IvOf(ev.out[1]) = IvFor(ev.frame.ssrc, ev.frame.timestamp, U32(0, 0))
    /\ send_counts_[ev.frame.ssrc] = U32(0, 1)

\* A call with the counter at 0xFFFF: the IV is made from 0.
C18_WitnessModulus ==
    /\ Sealed /\ ev.frame.ssrc \in DOMAIN ev.pre.send_counts_
    /\ CounterUsed = U32(0, 65535)
    /\ IvOf(ev.out[1]) = IvFor(ev.frame.ssrc, ev.frame.timestamp, U32(0, 0))
    /\ CountersStepped

(***************************************************************************)
(* Properties of SpecPrefix                                                *)
(***************************************************************************)
\* The prefix length the claim gives: 1 for audio, 10 and 3 for VP8, 0 for
\* AV1, and for H.264 the payload start of the first IDR or slice NALU
\* plus 2, or 0 without such a NALU.
PrefixLength(frame, type) ==
    IF type = "kAudioFrame" THEN 1
    ELSE IF frame.codec = "kVideoCodecVP8"
    THEN (IF frame.key_frame THEN 10 ELSE 3)
    ELSE IF frame.codec = "kVideoCodecH264"
    THEN LET slices == { o \in FindNaluIndices(frame.data) :
                           ParseNaluType(frame.data[o + 1]) \in {kIdr, kSlice} }
         IN  IF slices = {} THEN 0
             ELSE CHOOSE o \in { x + 2 : x \in slices } :
                     \A x \in slices : o <= x + 2
    ELSE 0

\* C19: the prefix encryptFrame leaves in the clear, as get_unencrypted_bytes
\* returns it, has the length the claim gives, for every offset of the
\* first slice NALU.
C19_PrefixLength ==
    /\ ev.op = "get_unencrypted_bytes" =>
          ev.unencrypted_bytes = PrefixLength(ev.frame, type_)
    /\ Sealed =>
          /\ ev.unencrypted_bytes = PrefixLength(ev.frame, type_)
          /\ Take(ev.out[1].data, PrefixLength(ev.frame, type_))
                = Take(ev.frame.data, PrefixLength(ev.frame, type_))

\* An H.264 frame whose slice NALU starts after a parameter set, below byte
\* 254: the prefix is as the claim says.
C19_Witness ==
    /\ Sealed /\ FrameIsH264(ev.frame, type_)
    /\ ev.frame.data = H264Sps
    /\ ev.unencrypted_bytes = PrefixLength(ev.frame, type_)
    /\ ev.unencrypted_bytes > 5

\* An H.264 frame whose slice NALU starts past byte 254: the prefix is
\* shorter by 256.
C19_WitnessFar ==
    /\ ev.op = "get_unencrypted_bytes" /\ FrameIsH264(ev.frame, type_)
    /\ PrefixLength(ev.frame, type_) >= 256
    /\ ev.unencrypted_bytes = PrefixLength(ev.frame, type_) - 256

\* The parts of the frame of the last step: the header, the 12 bytes before
\* the trailer, and the ciphertext with its tag: what lies between them,
\* for H.264 what is left of the suffix without its emulation prevention
\* bytes, its last 14 bytes taken off.
FrameHeader == Take(ev.frame.data, get_unencrypted_bytes(ev.frame, type_))
FrameIv == SubSeq(ev.frame.data, Len(ev.frame.data) - IvLen - 1, Len(ev.frame.data) - 2)
FrameSuffix ==
    IF FrameIsH264(ev.frame, type_)
    THEN ParseRbsp(Drop(ev.frame.data, Len(FrameHeader)))
    ELSE Drop(ev.frame.data, Len(FrameHeader))
FrameCiphertext == Take(FrameSuffix, Len(FrameSuffix) - IvLen - 2)

\* The keys decryptFrame may open with: the one installed at the trailer's
\* index, and that key's material ratcheted up to ratchet_window_size times.
KeysInReach ==
    { KeySetBefore.encryption_key }
    \cup { DeriveKeys(RatchetTimes(KeySetBefore.material, k), options.ratchet_salt, 128).encryption_key :
             k \in 1..options.ratchet_window_size }

\* The key opens the frame of the last step, with its header as AAD.
OpensWith == { key \in KeysInReach : AeadOpenOk(key, FrameIv, FrameHeader, FrameCiphertext) }

\* decryptFrame came to the trailer of a frame that has room for the
\* header, a tag, the IV and the trailer.
WholeFrame ==
    /\ CameToTrailer
    /\ Len(FrameSuffix) >= TagLen + IvLen + 2

\* C20: enabled and with a payload that does not end in the magic bytes,
\* decryptFrame hands a frame to the sink only if a key within reach opened
\* its ciphertext with the header as AAD, and the payload handed over is
\* then the header followed by the plaintext; with a bad IV length, without
\* a key, while waiting for a key and when no key opens the frame, nothing
\* is handed over.
C20_NoFallback ==
    WholeFrame =>
        /\ Len(ev.out) <= 1
        /\ ev.out # <<>> =>
              /\ ~BadIvLen /\ ~MissingKeyCase /\ ~WaitCase
              /\ \E key \in OpensWith :
                    ev.out[1].data = FrameHeader \o AeadOpen(key, FrameIv, FrameHeader, FrameCiphertext)
              /\ delivered = ev.out[1]
        /\ ev.out = <<>> => delivered.id = ev.pre.delivered_id
        /\ CameToKeys /\ ~MissingKeyCase /\ OpensWith = {} => ev.out = <<>>

\* A frame whose header was changed on the way: no key opens it and nothing
\* is handed to the sink.
C20_Witness ==
    /\ WholeFrame /\ CameToKeys /\ ~MissingKeyCase /\ ~WaitCase
    /\ ev.frame.tampered /\ OpensWith = {}
    /\ ev.out = <<>> /\ ev.cipher_ops > 0

\* A frame a ratcheted key opens is handed over as header and plaintext.
C20_WitnessOpened ==
    /\ WholeFrame /\ ev.out # <<>> /\ ev.ratchets > 0
    /\ ev.out[1].data = ev.frame.plain

\* An H.264 frame with emulation prevention bytes is handed over as header
\* and plaintext.
C20_WitnessH264 ==
    /\ WholeFrame /\ FrameIsH264(ev.frame, type_) /\ ev.out # <<>>
    /\ Len(FrameSuffix) < Len(ev.frame.data) - Len(FrameHeader)
    /\ ev.out[1].data = ev.frame.plain

(***************************************************************************)
(* Properties of SpecStop                                                  *)
(***************************************************************************)
\* C11: once the destructor has begun to stop the worker, no handler hands
\* a frame to a sink, whatever was queued or in flight at that moment: a
\* handler that ends after the destructor began has delivered nothing, and
\* the frame last delivered is the one delivered before.
C11_NoDeliveryAfterStop ==
    stopped /\ Ran => ev.out = <<>> /\ delivered.id = ev.pre.delivered_id

\* The destructor began while a task was in flight, and the task has run to
\* its end since.
C11_Witness == stopped /\ Ran /\ pc.worker.at = "idle"

\* The destructor began with tasks in the queue, which were released.
C11_WitnessReleased ==
    /\ stopped /\ ev.op = "~FrameCryptorTransformer"
    /\ queue = <<>> /\ pc.worker.at = "idle"
    /\ calls > 0 /\ delivered.id = 0

(***************************************************************************)
(* Properties of SpecSinks                                                 *)
(***************************************************************************)
\* No sink is registered in the transformer st: no audio sink, and no video
\* sink for any SSRC.
NoSinkRegistered(st) ==
    /\ st.sink_callback_ = "nullptr"
    /\ \A s \in DOMAIN st.sink_callbacks_ : st.sink_callbacks_[s] = "nullptr"

TransformCalled == ev.op \in { "Transform", "Transform_drop" }

\* The frame of the last step waits in the worker's queue.
InQueue == \E i \in DOMAIN queue : queue[i].frame.id = ev.frame.id

\* C12: whatever sinks were registered and unregistered and whatever frames
\* were processed before, a Transform call made while no sink is registered
\* drops the frame: no task is posted for it and no state is passed to the
\* observer.
C12_DropWithoutSink ==
    TransformCalled /\ NoSinkRegistered(ev.pre) =>
        /\ ev.op = "Transform_drop" /\ ~InQueue
        /\ ev.notes = <<>> /\ posted = ev.pre.posted

\* Transform dropped a frame after the only sink had been unregistered.
C12_Witness ==
    /\ ev.op = "Transform_drop" /\ NoSinkRegistered(ev.pre)
    /\ owner_ops > 0 /\ ~InQueue

(***************************************************************************)
(* Properties of SpecLocks                                                 *)
(***************************************************************************)
\* Transform is inside its lock and reads sink_callbacks_.size().
TransformReadsMap == pc.transport.at = "locked" /\ sink_callback_ = "nullptr"

\* C15: Transform and the handlers touch the sinks under one common lock:
\* the two threads are never in their sink sections at once, so Transform
\* never reads the map while the worker modifies it.
C15_CommonLock ==
    /\ pc.transport.at = "locked" /\ pc.worker.at = "snapshot" =>
          pc.transport.holds = pc.worker.holds
    /\ ~(TransformReadsMap /\ WorkerModifiesMap)

\* Transform read the size of the map while the worker inserted into it, and
\* dropped a frame although the map had an entry by then.
C15_Witness ==
    /\ ev.op = "Transform_drop" /\ WorkerModifiesMap


(***************************************************************************)
(* Properties of SpecShort                                                 *)
(***************************************************************************)
\* The last step was a handler that took a non-empty payload past the
\* passthrough branches.
TookPayload ==
    /\ Ran /\ SinkBefore /\ ev.pre.enabled_cryption_ /\ ev.frame.data # <<>>
    /\ ev.op = "decryptFrame" => ~EndsWithMagic(ev.frame.data)

\* What decryptFrame takes from a payload before it opens it: the clear
\* prefix, the tag, the IV and the two trailer bytes.
DecryptNeeds == ev.unencrypted_bytes + TagLen + IvLen + 2

\* The payload is shorter than what its handler takes from it.
TooShort ==
    IF ev.op = "encryptFrame"
    THEN Len(ev.frame.data) < get_unencrypted_bytes(ev.frame, type_)
    ELSE Len(ev.frame.data) < get_unencrypted_bytes(ev.frame, type_) + TagLen + IvLen + 2

\* C21: every handler run on a non-empty payload reads within the payload and
\* the buffers made from it and computes no negative length, and a payload
\* too short for its handler is dropped: nothing reaches the sink and the
\* process goes on.
C21_IndexSafety ==
    TookPayload =>
        /\ ~ev.oob /\ ~crashed
        /\ TooShort => ev.out = <<>>

\* C21 witness: short payloads the handlers do treat safely: a one-byte audio
\* payload is sealed with an empty plaintext, and a three-byte receiver
\* payload whose trailer names another IV length is dropped.
C21_Witness ==
    /\ TookPayload /\ ~ev.oob /\ ~crashed
    /\ \/ ev.op = "encryptFrame" /\ Len(ev.frame.data) = ev.unencrypted_bytes
          /\ ev.path = "encrypted"
       \/ ev.op = "decryptFrame" /\ TooShort /\ ev.path = "bad_iv_len"
          /\ ev.out = <<>>

\* A sender payload shorter than its clear prefix is indexed past its end.
C21_WitnessEncrypt ==
    TookPayload /\ ev.op = "encryptFrame" /\ TooShort /\ ev.oob /\ crashed

\* A receiver payload with a good trailer and fewer bytes than IV and
\* trailer, or than the tag, is indexed outside its bounds.
C21_WitnessDecrypt ==
    /\ TookPayload /\ ev.op = "decryptFrame" /\ TooShort /\ ev.oob
    /\ Len(ev.frame.data) >= 2

\* The shortest sealed frame, with an empty plaintext, is read within bounds.
C21_WitnessShortest ==
    /\ TookPayload /\ ev.op = "decryptFrame" /\ ~TooShort /\ ~ev.oob
    /\ Len(ev.frame.data) = DecryptNeeds /\ ev.path = "decrypted"


(***************************************************************************)
(* Properties of SpecGuard                                                 *)
(***************************************************************************)
\* C22: once kDecryptionFailed has been posted, and as long as has_valid_key
\* has been false and the owner has set no key since, decryptFrame makes no
\* ratchet attempt and no AES-GCM open for any frame.
C22_ThrashGuard ==
    ev.op = "decryptFrame" /\ ev.was_waiting =>
        ev.cipher_ops = 0 /\ ev.ratchets = 0

\* C22 witness: the frame that comes right after the failure is dropped
\* without an open.
C22_Witness ==
    /\ ev.op = "decryptFrame" /\ ev.was_waiting
    /\ LastBefore = "kDecryptionFailed" /\ ev.path = "wait_key"
    /\ ev.cipher_ops = 0 /\ ev.ratchets = 0

\* A frame whose trailer names an index outside the ring has moved the state
\* to kMissingKey; the next frame of the peer is opened and ratcheted on.
C22_WitnessThrash ==
    /\ ev.op = "decryptFrame" /\ ev.was_waiting
    /\ LastBefore = "kMissingKey" /\ ~HandlerBefore.has_valid_key
    /\ ev.cipher_ops = 1 + options.ratchet_window_size
    /\ ev.ratchets = options.ratchet_window_size


\* decryptFrame ran on a frame of the peer, sealed with the material the
\* handler holds at the frame's index, the first to come to the sink since
\* the owner set a key while the transformer was waiting in kDecryptionFailed
\* without a valid key.
AfterNewKey ==
    /\ ev.op = "decryptFrame" /\ ev.was_rekeyed
    /\ ev.frame.sealed /\ ~ev.frame.tampered
    /\ ev.frame.sender_index \in DOMAIN HandlerBefore.ring
    /\ GetKeySet(HandlerBefore, ev.frame.sender_index).material = ev.frame.material

Recovered ==
    /\ ev.path = "decrypted" /\ DeliveredPlain
    /\ ev.sent = << "kOk" >> /\ last_dec_error_ = "kOk"

\* C23: after the owner has set the peer's material at the peer's index while
\* the decrypt direction was in kDecryptionFailed without a valid key, the
\* next frame the peer sealed is opened, handed to the sink as the peer's
\* payload, and exactly one kOk is posted for it.
C23_Recovery == AfterNewKey => Recovered

\* C23 witness: the recovery, right from kDecryptionFailed.
C23_Witness ==
    AfterNewKey /\ LastBefore = "kDecryptionFailed" /\ Recovered

\* The frame that is lost after the new key: an H.264 frame whose IV holds
\* 0x00 0x00 and is escaped on the wire.
C23_WitnessLost ==
    /\ AfterNewKey /\ FrameIsH264(ev.frame, type_)
    /\ ev.out = <<>> /\ ev.path = "decrypt_failed" /\ ev.iv # ev.frame.iv

\* The part of C23 that holds: every frame but an H.264 one.
C23_RecoveryNotH264 ==
    AfterNewKey /\ ~FrameIsH264(ev.frame, type_) => Recovered


(***************************************************************************)
(* Properties of SpecRollback                                              *)
(***************************************************************************)
\* decryptFrame dropped the frame because the open failed, with ratcheting
\* off or with every ratchet attempt failed.
OpenFailed ==
    /\ ev.op = "decryptFrame" /\ ev.path = "decrypt_failed" /\ ev.out = <<>>
    /\ ev.failure_called
    /\ ev.ratchets = options.ratchet_window_size

\* C24: a frame dropped because the open failed leaves the key handler's
\* ring (material and encryption_key at every index), its current_index and
\* its has_valid_key as they were; only the failure counter may differ.
C24_HandlerUntouched ==
    OpenFailed =>
        /\ HandlerNow.ring = HandlerBefore.ring
        /\ HandlerNow.current_index = HandlerBefore.current_index
        /\ HandlerNow.has_valid_key = HandlerBefore.has_valid_key
        /\ HandlerNow.present = HandlerBefore.present

\* C24 witness: with ratcheting off, a frame for index 0 fails while
\* current_index is 1, and the handler is as before but for its counter.
C24_Witness ==
    /\ OpenFailed /\ options.ratchet_window_size = 0
    /\ TrailerIndex # HandlerBefore.current_index
    /\ HandlerNow = [HandlerBefore EXCEPT !.failure_count = @ + 1]

\* With ratcheting on, the rollback moves current_index to the frame's index.
C24_WitnessMoved ==
    /\ OpenFailed /\ options.ratchet_window_size > 0
    /\ HandlerBefore.current_index = 1 /\ TrailerIndex = 0
    /\ HandlerNow.current_index = 0
    /\ HandlerNow.ring = HandlerBefore.ring

\* The part of C24 that holds: the ring and has_valid_key are as before, and
\* current_index is as before or the frame's index.
C24_RingUntouched ==
    OpenFailed =>
        /\ HandlerNow.ring = HandlerBefore.ring
        /\ HandlerNow.has_valid_key = HandlerBefore.has_valid_key
        /\ HandlerNow.current_index =
              IF options.ratchet_window_size > 0 THEN TrailerIndex
              ELSE HandlerBefore.current_index
        /\ HandlerNow.failure_count = HandlerBefore.failure_count + 1

====
